---- MODULE Spec2Model ----
(***************************************************************************)
(* State-machine model of the rfq instrument library:                      *)
(*   SwapLeg / SwapLegBuilder      (include/rfq/swap_leg.hpp)              *)
(*   InterestRateSwap factories    (src/interest_rate_swap.cpp)            *)
(*   Swaption                      (src/swaption.cpp)                      *)
(*   ThreadSafeQueue, BoundedThreadSafeQueue                               *)
(*                                 (include/rfq/thread_safe_queue.hpp)     *)
(*   SwapValidator                 (src/swap_validator.cpp)                *)
(*                                                                         *)
(* Conventions.                                                            *)
(*  - A C++ double is an integer of the model, or NaN.  Every comparison   *)
(*    of the instrument code goes through DLe, which is false on NaN as    *)
(*    the IEEE-754 comparisons are.                                        *)
(*  - A std::string the code only tests for equality or emptiness is a    *)
(*    TLA+ string.  A date token, which the code also orders, is a         *)
(*    sequence of character codes: == is equality of sequences and < is    *)
(*    StrLess, the lexicographic order of std::string::compare.            *)
(*  - std::optional<T> and a nullable pointer are sequences of length 0    *)
(*    (absent / null) or 1 (present).                                      *)
(*  - An operation that throws leaves the exception type in the component's*)
(*    ...Error variable ("none" when it returned normally).                *)
(***************************************************************************)
EXTENDS Integers, Sequences, FiniteSets, TLC

\* ---------------------------------------------------------------------
\* Bounds of the model
\* ---------------------------------------------------------------------

\* doubles are -MaxDouble..MaxDouble and NaN
MaxDouble == 1

\* maximal length of a date token
MaxDateLen == 2

\* maximal length of the exercise-date vector
MaxDates == 2

\* number of push/emplace calls made on a ThreadSafeQueue, and of
\* push/tryPush calls made on a BoundedThreadSafeQueue
MaxItems == 2

\* largest max_size a BoundedThreadSafeQueue is constructed with
MaxCapacity == 1

\* maximal length of the text of a notional given to the validator
MaxTextLen == 2

\* ---------------------------------------------------------------------
\* double
\* ---------------------------------------------------------------------

\* the code of NaN, outside the range of the numbers
NaN == 1000

Doubles == ((0 - MaxDouble)..MaxDouble) \cup {NaN}

DLe(x, y) == x # NaN /\ y # NaN /\ x <= y

\* ---------------------------------------------------------------------
\* std::string
\* ---------------------------------------------------------------------

\* the character codes a date token is made of
Chars == {1, 2}

RECURSIVE StrLess(_, _)
StrLess(a, b) ==
    IF b = <<>> THEN FALSE
    ELSE IF a = <<>> THEN TRUE
    ELSE IF Head(a) < Head(b) THEN TRUE
    ELSE IF Head(a) > Head(b) THEN FALSE
    ELSE StrLess(Tail(a), Tail(b))

StrLe(a, b) == a = b \/ StrLess(a, b)

StrGt(a, b) == StrLess(b, a)

StringsUpTo(n) == UNION { [1..k -> Chars] : k \in 0..n }

\* ---------------------------------------------------------------------
\* SwapLeg and SwapLegBuilder
\* ---------------------------------------------------------------------

Currencies == {"", "USD", "EUR"}

FloatingIndexes == {"SOFR", "LIBOR_USD", "EURIBOR"}

DayCountConventions == {"ACT_360", "ACT_365"}

PaymentFrequencies == {"SEMI_ANNUAL", "QUARTERLY"}

\* SwapLeg::Rate = std::variant<double, FloatingIndex>
FixedRate(r) == [holds |-> "double", rate |-> r, index |-> "-"]

FloatingRate(i) == [holds |-> "FloatingIndex", rate |-> 0, index |-> i]

Rates == {FixedRate(r) : r \in Doubles} \cup {FloatingRate(i) : i \in FloatingIndexes}

SwapLeg(type, currency, notional, rate, day_count, frequency, spread) ==
    [type_ |-> type, currency_ |-> currency, notional_ |-> notional,
     rate_ |-> rate, day_count_ |-> day_count, frequency_ |-> frequency,
     spread_ |-> spread]

isFixed(leg) == leg.rate_.holds = "double"

isFloating(leg) == leg.rate_.holds = "FloatingIndex"

\* the member initializers of SwapLegBuilder
SwapLegBuilderDefault ==
    [type_ |-> "FIXED", currency_ |-> "", notional_ |-> 0,
     rate_ |-> FixedRate(0), day_count_ |-> "ACT_360",
     frequency_ |-> "SEMI_ANNUAL", spread_ |-> <<>>]

\* SwapLegBuilder::validate: the exception it throws, "none" if it returns
SwapLegBuilder_validate(b) ==
    IF b.currency_ = "" THEN "invalid_argument"
    ELSE IF DLe(b.notional_, 0) THEN "invalid_argument"
    ELSE IF b.rate_.holds # "double" /\ b.rate_.holds # "FloatingIndex"
         THEN "invalid_argument"
    ELSE "none"

VARIABLES
    builder,     \* the SwapLegBuilder's fields
    rateSet,     \* history: withFixedRate/withFloatingIndex was called on it
    lastSet,     \* history: per field, <<>> or <<the argument of the last setter
                 \* of the field that returned>>
    leg,         \* what the last operation returned if it was build():
                 \* <<SwapLeg>>, and <<>> after any other operation or a throw
    legOp,       \* the last builder operation
    legArg,      \* the double argument of the last operation (0 if none)
    legError     \* exception thrown by the last operation

legVars == <<builder, rateSet, lastSet, leg, legOp, legArg, legError>>

VARIABLES
    swap,        \* result of the last factory call: <<>> or <<InterestRateSwap>>
    swapOp,      \* the last factory called
    swapArgs,    \* its arguments
    swapError    \* exception thrown by the last factory call

swapVars == <<swap, swapOp, swapArgs, swapError>>

VARIABLES
    swaption,      \* the Swaption object: <<>> (none constructed) or <<Swaption>>
    swaptionOp,    \* the last Swaption operation
    swaptionArgs,  \* its arguments
    swaptionError  \* exception thrown by the last operation

swaptionVars == <<swaption, swaptionOp, swaptionArgs, swaptionError>>

VARIABLE
    swaptionMadeBy  \* history: the constructor or factory that made the object

VARIABLES
    tsq,         \* the ThreadSafeQueue: queue_, shutdown_, size_, mutex_ (its
                 \* holder) and cv_ (the threads blocked in cv_.wait)
    tsqThread,   \* per thread: where it is in its call, and what the call returned
    tsqHist      \* history: items in the order enqueued and in the order returned

tsqVars == <<tsq, tsqThread, tsqHist>>

VARIABLES
    bq,          \* the BoundedThreadSafeQueue, <<>> before its construction:
                 \* queue_, max_size_, shutdown_, size_, mutex_ (its holder),
                 \* cv_not_empty_ and cv_not_full_ (the threads blocked in them)
    bqThread,    \* per thread: where it is in its call, and what the call returned
    bqHist       \* history: calls made, items enqueued, items returned

bqVars == <<bq, bqThread, bqHist>>

VARIABLES
    validator,   \* the SwapValidator: rules_, strict_mode_, min_notional_,
                 \* max_notional_
    vCall        \* the last call made on it, with its arguments and its result

validatorVars == <<validator, vCall>>

VARIABLE
    swaptionCall \* a call of a const member function of a Swaption: the object
                 \* it is made on, its argument and what it returned

callVars == <<swaptionCall>>

VARIABLE
    tsqMoved     \* the ThreadSafeQueue move-constructed from tsq: <<>> before
                 \* the construction, <<the new queue>> after it

movedVars == <<tsqMoved>>

VARIABLE
    pricer       \* a call of SwaptionPricer: its arguments, where it is in the
                 \* loop of impliedVolatility, and what it returned

pricerVars == <<pricer>>

vars == <<legVars, swapVars, swaptionVars, swaptionMadeBy, tsqVars, bqVars, validatorVars,
    callVars, movedVars, pricerVars>>

notLegVars == <<swapVars, swaptionVars, swaptionMadeBy, tsqVars, bqVars, validatorVars,
    callVars, movedVars, pricerVars>>

notSwapVars == <<legVars, swaptionVars, swaptionMadeBy, tsqVars, bqVars, validatorVars,
    callVars, movedVars, pricerVars>>

notSwaptionVars == <<legVars, swapVars, tsqVars, bqVars, validatorVars,
    callVars, movedVars, pricerVars>>

notTsqVars == <<legVars, swapVars, swaptionVars, swaptionMadeBy, bqVars, validatorVars,
    callVars, movedVars, pricerVars>>

notBqVars == <<legVars, swapVars, swaptionVars, swaptionMadeBy, tsqVars, validatorVars,
    callVars, movedVars, pricerVars>>

notValidatorVars == <<legVars, swapVars, swaptionVars, swaptionMadeBy, tsqVars, bqVars,
    callVars, movedVars, pricerVars>>

notCallVars == <<legVars, swapVars, swaptionVars, swaptionMadeBy, tsqVars, bqVars,
    validatorVars, movedVars, pricerVars>>

\* what the move constructor of ThreadSafeQueue leaves alone
notTsqMovedVars == <<legVars, swapVars, swaptionVars, swaptionMadeBy, bqVars,
    validatorVars, callVars, pricerVars>>

notPricerVars == <<legVars, swapVars, swaptionVars, swaptionMadeBy, tsqVars, bqVars,
    validatorVars, callVars, movedVars>>

\* ---- builder operations ------------------------------------------------

\* SwapLeg::builder(): a fresh builder
\* no setter was called yet
NeverSet ==
    [currency |-> <<>>, notional |-> <<>>, rate |-> <<>>, day_count |-> <<>>,
     frequency |-> <<>>, spread |-> <<>>]

builderNew ==
    /\ builder' = SwapLegBuilderDefault
    /\ rateSet' = FALSE
    /\ leg' = <<>>
    /\ legOp' = "builder"
    /\ legArg' = 0
    /\ legError' = "none"
    /\ lastSet' = NeverSet
    /\ UNCHANGED notLegVars

withCurrency ==
    \E c \in Currencies :
        /\ builder' = [builder EXCEPT !.currency_ = c]
        /\ legOp' = "withCurrency"
        /\ legArg' = 0
        /\ legError' = "none"
        /\ leg' = <<>>
        /\ UNCHANGED rateSet
        /\ lastSet' = [lastSet EXCEPT !.currency = <<c>>]
        /\ UNCHANGED notLegVars

\* the builder after withNotional(n): unchanged when the setter throws
withNotionalResult(b, n) == IF DLe(n, 0) THEN b ELSE [b EXCEPT !.notional_ = n]

withNotional ==
    \E n \in Doubles :
        /\ builder' = withNotionalResult(builder, n)
        /\ legError' = IF DLe(n, 0) THEN "invalid_argument" ELSE "none"
        /\ legOp' = "withNotional"
        /\ legArg' = n
        /\ leg' = <<>>
        /\ UNCHANGED rateSet
        /\ lastSet' = IF DLe(n, 0) THEN lastSet ELSE [lastSet EXCEPT !.notional = <<n>>]
        /\ UNCHANGED notLegVars

withFixedRate ==
    \E r \in Doubles :
        /\ builder' = [builder EXCEPT !.rate_ = FixedRate(r), !.type_ = "FIXED"]
        /\ rateSet' = TRUE
        /\ legOp' = "withFixedRate"
        /\ legArg' = r
        /\ legError' = "none"
        /\ leg' = <<>>
        /\ lastSet' = [lastSet EXCEPT !.rate = <<[setter |-> "withFixedRate", rate |-> FixedRate(r)]>>]
        /\ UNCHANGED notLegVars

withFloatingIndex ==
    \E i \in FloatingIndexes :
        /\ builder' = [builder EXCEPT !.rate_ = FloatingRate(i), !.type_ = "FLOATING"]
        /\ rateSet' = TRUE
        /\ legOp' = "withFloatingIndex"
        /\ legArg' = 0
        /\ legError' = "none"
        /\ leg' = <<>>
        /\ lastSet' = [lastSet EXCEPT !.rate = <<[setter |-> "withFloatingIndex", rate |-> FloatingRate(i)]>>]
        /\ UNCHANGED notLegVars

withDayCount ==
    \E d \in DayCountConventions :
        /\ builder' = [builder EXCEPT !.day_count_ = d]
        /\ legOp' = "withDayCount"
        /\ legArg' = 0
        /\ legError' = "none"
        /\ leg' = <<>>
        /\ UNCHANGED rateSet
        /\ lastSet' = [lastSet EXCEPT !.day_count = <<d>>]
        /\ UNCHANGED notLegVars

withFrequency ==
    \E f \in PaymentFrequencies :
        /\ builder' = [builder EXCEPT !.frequency_ = f]
        /\ legOp' = "withFrequency"
        /\ legArg' = 0
        /\ legError' = "none"
        /\ leg' = <<>>
        /\ UNCHANGED rateSet
        /\ lastSet' = [lastSet EXCEPT !.frequency = <<f>>]
        /\ UNCHANGED notLegVars

withSpread ==
    \E s \in {MaxDouble} :
        /\ builder' = [builder EXCEPT !.spread_ = <<s>>]
        /\ legOp' = "withSpread"
        /\ legArg' = s
        /\ legError' = "none"
        /\ leg' = <<>>
        /\ UNCHANGED rateSet
        /\ lastSet' = [lastSet EXCEPT !.spread = <<s>>]
        /\ UNCHANGED notLegVars

\* build(): validate() throws, or the leg is constructed from the fields;
\* currency_ is moved from, which leaves the builder's string valid but
\* unspecified: empty, or still holding its characters.
build ==
    /\ legOp' = "build"
    /\ legArg' = 0
    /\ legError' = SwapLegBuilder_validate(builder)
    /\ IF SwapLegBuilder_validate(builder) # "none"
       THEN /\ leg' = <<>>
            /\ builder' = builder
       ELSE /\ leg' = <<SwapLeg(builder.type_, builder.currency_, builder.notional_,
                                builder.rate_, builder.day_count_,
                                builder.frequency_, builder.spread_)>>
            /\ \E moved \in {"", builder.currency_} :
                   builder' = [builder EXCEPT !.currency_ = moved]
    /\ UNCHANGED rateSet
    /\ UNCHANGED lastSet
    /\ UNCHANGED notLegVars

NextLeg ==
    \/ builderNew
    \/ withCurrency
    \/ withNotional
    \/ withFixedRate
    \/ withFloatingIndex
    \/ withDayCount
    \/ withFrequency
    \/ withSpread
    \/ build

\* ---------------------------------------------------------------------
\* InterestRateSwap
\* ---------------------------------------------------------------------

\* legs a builder returns, as the arguments of the factories
FactoryLegs ==
    { SwapLeg(IF r.holds = "double" THEN "FIXED" ELSE "FLOATING", c, MaxDouble, r,
              "ACT_360", f, <<>>) :
        c \in Currencies \ {""},
        r \in {FixedRate(MaxDouble)} \cup {FloatingRate(i) : i \in FloatingIndexes},
        f \in {"SEMI_ANNUAL"} }

Tenors == {"", "5Y"}

EffectiveDates == {"", "2024-01-15"}

\* SwapLeg::floatingIndex on a floating leg
floatingIndex(l) == l.rate_.index

isValidVanillaSwapNoCurrency(pay, receive) ==
    (isFixed(pay) /\ isFloating(receive)) \/ (isFloating(pay) /\ isFixed(receive))

isValidVanillaSwap(pay, receive) ==
    LET one_fixed_one_float == (isFixed(pay) /\ isFloating(receive)) \/
                               (isFloating(pay) /\ isFixed(receive))
        same_currency == pay.currency_ = receive.currency_
    IN  one_fixed_one_float /\ same_currency

isValidBasisSwapNoIndex(pay, receive) ==
    IF ~isFloating(pay) \/ ~isFloating(receive) THEN FALSE
    ELSE IF pay.currency_ # receive.currency_ THEN FALSE
    ELSE TRUE

isValidBasisSwap(pay, receive) ==
    IF ~isFloating(pay) \/ ~isFloating(receive) THEN FALSE
    ELSE IF pay.currency_ # receive.currency_ THEN FALSE
    ELSE floatingIndex(pay) # floatingIndex(receive)

isValidCrossCurrencySwap(pay, receive) == pay.currency_ # receive.currency_

\* the private constructor
InterestRateSwap(type, pay_leg, receive_leg, tenor, effective_date, fx_rate) ==
    [type_ |-> type, pay_leg_ |-> pay_leg, receive_leg_ |-> receive_leg,
     tenor_ |-> tenor, effective_date_ |-> effective_date, fx_rate_ |-> fx_rate]

createVanillaSwap ==
    \E pay \in FactoryLegs, receive \in FactoryLegs,
       tenor \in Tenors, effective_date \in EffectiveDates :
        /\ swapOp' = "createVanillaSwap"
        /\ swapArgs' = [pay |-> pay, receive |-> receive, fx_rate |-> 0]
        /\ IF ~isValidVanillaSwap(pay, receive)
           THEN /\ swapError' = "invalid_argument"
                /\ swap' = <<>>
           ELSE /\ swapError' = "none"
                /\ swap' = <<InterestRateSwap("VANILLA", pay, receive, tenor,
                                              effective_date, <<>>)>>
        /\ UNCHANGED notSwapVars

createBasisSwap ==
    \E pay \in FactoryLegs, receive \in FactoryLegs,
       tenor \in Tenors, effective_date \in EffectiveDates :
        /\ swapOp' = "createBasisSwap"
        /\ swapArgs' = [pay |-> pay, receive |-> receive, fx_rate |-> 0]
        /\ IF ~isValidBasisSwap(pay, receive)
           THEN /\ swapError' = "invalid_argument"
                /\ swap' = <<>>
           ELSE /\ swapError' = "none"
                /\ swap' = <<InterestRateSwap("BASIS", pay, receive, tenor,
                                              effective_date, <<>>)>>
        /\ UNCHANGED notSwapVars

createCrossCurrencySwap ==
    \E pay \in FactoryLegs, receive \in FactoryLegs,
       tenor \in Tenors, effective_date \in EffectiveDates, fx_rate \in Doubles :
        /\ swapOp' = "createCrossCurrencySwap"
        /\ swapArgs' = [pay |-> pay, receive |-> receive, fx_rate |-> fx_rate]
        /\ IF ~isValidCrossCurrencySwap(pay, receive)
           THEN /\ swapError' = "invalid_argument"
                /\ swap' = <<>>
           ELSE IF DLe(fx_rate, 0)
           THEN /\ swapError' = "invalid_argument"
                /\ swap' = <<>>
           ELSE /\ swapError' = "none"
                /\ swap' = <<InterestRateSwap("CROSS_CURRENCY", pay, receive, tenor,
                                              effective_date, <<fx_rate>>)>>
        /\ UNCHANGED notSwapVars

\* InterestRateSwap::validate with the fx test of a strictly positive number
swapValidateFxPositive(sw) ==
    (IF sw.tenor_ = "" THEN <<"Tenor is required">> ELSE <<>>)
    \o (IF sw.effective_date_ = "" THEN <<"Effective date is required">> ELSE <<>>)
    \o (CASE sw.type_ = "VANILLA" ->
                IF ~isValidVanillaSwap(sw.pay_leg_, sw.receive_leg_)
                THEN <<"Invalid vanilla swap: one leg must be fixed, one floating">>
                ELSE <<>>
          [] sw.type_ = "BASIS" ->
                IF ~isValidBasisSwap(sw.pay_leg_, sw.receive_leg_)
                THEN <<"Invalid basis swap: both legs must be floating">>
                ELSE <<>>
          [] sw.type_ = "CROSS_CURRENCY" ->
                (IF ~isValidCrossCurrencySwap(sw.pay_leg_, sw.receive_leg_)
                 THEN <<"Invalid cross-currency swap: legs must have different currencies">>
                 ELSE <<>>)
                \o (IF sw.fx_rate_ = <<>> \/ sw.fx_rate_[1] = NaN \/ sw.fx_rate_[1] <= 0
                    THEN <<"Cross-currency swap requires valid FX rate">>
                    ELSE <<>>)
          [] OTHER -> <<"Overnight swap validation not yet implemented">>)

\* InterestRateSwap::validate of a swap that has both legs: the violations in
\* the order the code appends them
swapValidate(sw) ==
    (IF sw.tenor_ = "" THEN <<"Tenor is required">> ELSE <<>>)
    \o (IF sw.effective_date_ = "" THEN <<"Effective date is required">> ELSE <<>>)
    \o (CASE sw.type_ = "VANILLA" ->
                IF ~isValidVanillaSwap(sw.pay_leg_, sw.receive_leg_)
                THEN <<"Invalid vanilla swap: one leg must be fixed, one floating">>
                ELSE <<>>
          [] sw.type_ = "BASIS" ->
                IF ~isValidBasisSwap(sw.pay_leg_, sw.receive_leg_)
                THEN <<"Invalid basis swap: both legs must be floating">>
                ELSE <<>>
          [] sw.type_ = "CROSS_CURRENCY" ->
                (IF ~isValidCrossCurrencySwap(sw.pay_leg_, sw.receive_leg_)
                 THEN <<"Invalid cross-currency swap: legs must have different currencies">>
                 ELSE <<>>)
                \o (IF sw.fx_rate_ = <<>> \/ DLe(sw.fx_rate_[1], 0)
                    THEN <<"Cross-currency swap requires valid FX rate">>
                    ELSE <<>>)
          [] OTHER -> <<"Overnight swap validation not yet implemented">>)

\* InterestRateSwap::isValid
swapIsValid(sw) == swapValidate(sw) = <<>>

NextSwap ==
    \/ createVanillaSwap
    \/ createBasisSwap
    \/ createCrossCurrencySwap

\* ---------------------------------------------------------------------
\* Swaption
\* ---------------------------------------------------------------------

Dates == StringsUpTo(MaxDateLen)

DateLists == UNION { [1..k -> Dates] : k \in 0..MaxDates }

SwaptionTypes == {"PAYER", "RECEIVER"}

ExerciseStyles == {"EUROPEAN", "AMERICAN", "BERMUDAN"}

StrikeRates == {0, MaxDouble}

\* a swap the factories return, as the underlying of a swaption
SampleSwap ==
    InterestRateSwap("VANILLA",
        SwapLeg("FIXED", "USD", MaxDouble, FixedRate(MaxDouble), "ACT_360",
                "SEMI_ANNUAL", <<>>),
        SwapLeg("FLOATING", "USD", MaxDouble, FloatingRate("SOFR"), "ACT_360",
                "SEMI_ANNUAL", <<>>),
        "5Y", "2024-01-15", <<>>)

\* std::shared_ptr<InterestRateSwap>: null or pointing to a swap
Underlyings == {<<>>, <<SampleSwap>>}

Range(s) == { s[i] : i \in 1..Len(s) }

\* std::sort of a vector of strings (ascending by operator<)
RECURSIVE SortedInsert(_, _)
SortedInsert(s, x) ==
    IF s = <<>> THEN <<x>>
    ELSE IF StrLess(x, Head(s)) THEN <<x>> \o s
    ELSE <<Head(s)>> \o SortedInsert(Tail(s), x)

RECURSIVE std_sort(_)
std_sort(s) == IF s = <<>> THEN <<>> ELSE SortedInsert(std_sort(Tail(s)), Head(s))

SwaptionNoExpiryPush(type, style, underlying, expiry_date, strike_rate, premium) ==
    [type_ |-> type, style_ |-> style, underlying_ |-> underlying,
     expiry_date_ |-> expiry_date, strike_rate_ |-> strike_rate,
     premium_ |-> premium, exercise_dates_ |-> <<>>]

\* the constructor, for a non-null underlying
Swaption(type, style, underlying, expiry_date, strike_rate, premium) ==
    [type_ |-> type, style_ |-> style, underlying_ |-> underlying,
     expiry_date_ |-> expiry_date, strike_rate_ |-> strike_rate,
     premium_ |-> premium,
     exercise_dates_ |-> IF style = "EUROPEAN" THEN <<expiry_date>> ELSE <<>>]

addExerciseDateAlways(exercise_dates, date) == std_sort(Append(exercise_dates, date))

\* exercise_dates_ after addExerciseDate(date) on a Bermudan swaption
addExerciseDateResult(exercise_dates, date) ==
    IF date \notin Range(exercise_dates)
    THEN std_sort(Append(exercise_dates, date))
    ELSE exercise_dates

canExerciseOnStrict(s, date) ==
    CASE s.style_ = "EUROPEAN" -> date = s.expiry_date_
      [] s.style_ = "AMERICAN" -> StrLess(date, s.expiry_date_)
      [] s.style_ = "BERMUDAN" -> date \in Range(s.exercise_dates_)
      [] OTHER -> FALSE

\* Swaption::canExerciseOn on the swaption s
canExerciseOn(s, date) ==
    CASE s.style_ = "EUROPEAN" -> date = s.expiry_date_
      [] s.style_ = "AMERICAN" -> StrLe(date, s.expiry_date_)
      [] s.style_ = "BERMUDAN" -> date \in Range(s.exercise_dates_)
      [] OTHER -> FALSE

NoSwaptionArgs == [date |-> <<>>, exercise_dates |-> <<>>]

\* a constructor or factory threw: no object exists
NoSwaption(op, args, error) ==
    /\ swaption' = <<>>
    /\ swaptionMadeBy' = "none"
    /\ swaptionOp' = op
    /\ swaptionArgs' = args
    /\ swaptionError' = error

\* a constructor or factory returned the object s
NewSwaption(op, args, s) ==
    /\ swaption' = <<s>>
    /\ swaptionMadeBy' = op
    /\ swaptionOp' = op
    /\ swaptionArgs' = args
    /\ swaptionError' = "none"

\* The model follows one Swaption object: it is constructed once, from the
\* initial state, and addExerciseDate is its only mutator.

\* the public constructor
constructSwaption ==
    /\ swaptionOp = "none"
    /\ \E type \in SwaptionTypes, style \in ExerciseStyles, underlying \in Underlyings,
       expiry_date \in Dates, strike_rate \in StrikeRates :
        /\ IF underlying = <<>>
           THEN NoSwaption("Swaption", NoSwaptionArgs, "invalid_argument")
           ELSE NewSwaption("Swaption", NoSwaptionArgs,
                            Swaption(type, style, underlying, expiry_date, strike_rate, 0))
        /\ UNCHANGED notSwaptionVars

createEuropean ==
    /\ swaptionOp = "none"
    /\ \E type \in SwaptionTypes, underlying \in Underlyings,
       expiry_date \in Dates, strike_rate \in StrikeRates :
        /\ IF underlying = <<>>
           THEN NoSwaption("createEuropean", NoSwaptionArgs, "invalid_argument")
           ELSE NewSwaption("createEuropean", NoSwaptionArgs,
                            Swaption(type, "EUROPEAN", underlying, expiry_date,
                                     strike_rate, 0))
        /\ UNCHANGED notSwaptionVars

createAmerican ==
    /\ swaptionOp = "none"
    /\ \E type \in SwaptionTypes, underlying \in Underlyings,
       expiry_date \in Dates, strike_rate \in StrikeRates :
        /\ IF underlying = <<>>
           THEN NoSwaption("createAmerican", NoSwaptionArgs, "invalid_argument")
           ELSE NewSwaption("createAmerican", NoSwaptionArgs,
                            Swaption(type, "AMERICAN", underlying, expiry_date,
                                     strike_rate, 0))
        /\ UNCHANGED notSwaptionVars

createBermudan ==
    /\ swaptionOp = "none"
    /\ \E type \in SwaptionTypes, underlying \in Underlyings,
       expiry_date \in Dates, strike_rate \in StrikeRates,
       exercise_dates \in DateLists :
        LET args == [date |-> <<>>, exercise_dates |-> exercise_dates]
        IN  /\ IF underlying = <<>>
               THEN NoSwaption("createBermudan", args, "invalid_argument")
               ELSE IF exercise_dates = <<>>
               THEN NoSwaption("createBermudan", args, "invalid_argument")
               ELSE NewSwaption("createBermudan", args,
                        [Swaption(type, "BERMUDAN", underlying, expiry_date,
                                  strike_rate, 0)
                         EXCEPT !.exercise_dates_ = exercise_dates])
            /\ UNCHANGED notSwaptionVars

\* the vector is kept within MaxDates elements
addExerciseDate ==
    \E date \in Dates :
        /\ swaption # <<>>
        /\ \/ swaption[1].style_ # "BERMUDAN"
           \/ date \in Range(swaption[1].exercise_dates_)
           \/ Len(swaption[1].exercise_dates_) < MaxDates
        /\ swaptionOp' = "addExerciseDate"
        /\ swaptionArgs' = [date |-> date, exercise_dates |-> <<>>]
        /\ IF swaption[1].style_ # "BERMUDAN"
           THEN /\ swaptionError' = "runtime_error"
                /\ swaption' = swaption
           ELSE /\ swaptionError' = "none"
                /\ swaption' = <<[swaption[1] EXCEPT !.exercise_dates_ =
                                   addExerciseDateResult(@, date)]>>
        /\ UNCHANGED swaptionMadeBy
        /\ UNCHANGED notSwaptionVars

\* ---- const member functions of Swaption --------------------------------

\* a swap createVanillaSwap returns when it is given an empty tenor
UntenoredSwap == [SampleSwap EXCEPT !.tenor_ = ""]

\* double operator- and unary minus
DSub(x, y) == IF x = NaN \/ y = NaN THEN NaN ELSE x - y

DNeg(x) == IF x = NaN THEN NaN ELSE 0 - x

\* std::max(a, b): (a < b) ? b : a
std_max(a, b) == IF a # NaN /\ b # NaN /\ a < b THEN b ELSE a

intrinsicValuePayerOnly(s, current_rate) ==
    std_max(0, DSub(current_rate, s.strike_rate_))

\* Swaption::intrinsicValue
intrinsicValue(s, current_rate) ==
    LET rate_diff == DSub(current_rate, s.strike_rate_)
    IN  IF s.type_ = "PAYER"
        THEN std_max(0, rate_diff)
        ELSE std_max(0, DNeg(rate_diff))

\* one entry of the vector validate returns; date is <<>> or <<the date named>>
Violation(message, date) == [message |-> message, date |-> date]

RECURSIVE lateDates(_, _)
\* the loop over exercise_dates_ in validate
lateDates(exercise_dates, expiry_date) ==
    IF exercise_dates = <<>> THEN <<>>
    ELSE (IF StrGt(exercise_dates[1], expiry_date)
          THEN <<Violation("Exercise date is after expiry", <<exercise_dates[1]>>)>>
          ELSE <<>>)
         \o lateDates(Tail(exercise_dates), expiry_date)

\* Swaption::validate
swaptionValidate(s) ==
    IF s.underlying_ = <<>>
    THEN <<Violation("Underlying swap is required", <<>>)>>
    ELSE (IF ~swapIsValid(s.underlying_[1])
          THEN <<Violation("Underlying swap is invalid", <<>>)>> ELSE <<>>)
         \o (IF s.expiry_date_ = <<>>
             THEN <<Violation("Expiry date is required", <<>>)>> ELSE <<>>)
         \o (IF (s.strike_rate_ # NaN /\ s.strike_rate_ < 0)
                \/ (s.strike_rate_ # NaN /\ s.strike_rate_ > 1)
             THEN <<Violation("Strike rate must be between 0 and 1 (as decimal)", <<>>)>> ELSE <<>>)
         \o (IF s.style_ = "BERMUDAN"
             THEN (IF s.exercise_dates_ = <<>>
                   THEN <<Violation("Bermudan swaption requires at least one exercise date", <<>>)>>
                   ELSE <<>>)
                  \o lateDates(s.exercise_dates_, s.expiry_date_)
             ELSE <<>>)

\* Swaption::isValid
swaptionIsValid(s) == swaptionValidate(s) = <<>>

\* strike rates the constructor accepts: it makes no test of them
AnyStrikeRates == Doubles \cup {MaxDouble + 1}

CurrentRates == Doubles \cup {MaxDouble + 1}

\* the lists of at most two dates
ShortDateLists ==
    {<<>>} \cup { <<d>> : d \in Dates } \cup { <<d, e>> : d \in Dates, e \in Dates }

\* Swaption objects the constructor and createBermudan make: the constructor
\* leaves a Bermudan swaption without dates, createBermudan stores the list it
\* is given
SwaptionObjects ==
    { Swaption(type, style, <<u>>, expiry_date, strike_rate, 0) :
        type \in SwaptionTypes, style \in ExerciseStyles,
        u \in {SampleSwap, UntenoredSwap}, expiry_date \in Dates,
        strike_rate \in AnyStrikeRates }
    \cup
    { [Swaption(type, "BERMUDAN", <<u>>, expiry_date, strike_rate, 0)
          EXCEPT !.exercise_dates_ = dates] :
        type \in SwaptionTypes, u \in {SampleSwap, UntenoredSwap},
        expiry_date \in Dates, strike_rate \in AnyStrikeRates,
        dates \in ShortDateLists \ {<<>>} }

NoSwaptionCall == [op |-> "none", swaption |-> <<>>, current_rate |-> 0, result |-> <<>>]

Swaption_validate ==
    /\ swaptionCall.op = "none"
    /\ \E s \in SwaptionObjects :
        /\ swaptionCall' = [op |-> "validate", swaption |-> <<s>>, current_rate |-> 0,
                            result |-> swaptionValidate(s)]
        /\ UNCHANGED notCallVars

Swaption_isValid ==
    /\ swaptionCall.op = "none"
    /\ \E s \in SwaptionObjects :
        /\ swaptionCall' = [op |-> "isValid", swaption |-> <<s>>, current_rate |-> 0,
                            result |-> swaptionIsValid(s)]
        /\ UNCHANGED notCallVars

Swaption_intrinsicValue ==
    /\ swaptionCall.op = "none"
    /\ \E s \in SwaptionObjects, current_rate \in CurrentRates :
        /\ swaptionCall' = [op |-> "intrinsicValue", swaption |-> <<s>>,
                            current_rate |-> current_rate,
                            result |-> intrinsicValue(s, current_rate)]
        /\ UNCHANGED notCallVars

\* the caller is done with the value returned
Swaption_return ==
    /\ swaptionCall.op # "none"
    /\ swaptionCall' = NoSwaptionCall
    /\ UNCHANGED notCallVars

NextSwaptionCall ==
    \/ Swaption_validate
    \/ Swaption_isValid
    \/ Swaption_intrinsicValue
    \/ Swaption_return

NextSwaption ==
    \/ constructSwaption
    \/ createEuropean
    \/ createAmerican
    \/ createBermudan
    \/ addExerciseDate

\* ---------------------------------------------------------------------
\* ThreadSafeQueue
\* ---------------------------------------------------------------------
\* Every statement that reads or writes shared state is one step.  The
\* statements under the mutex are atomic for the threads that lock it, but
\* shutdown() stores the flag and notifies without locking, so its two steps
\* interleave with the steps of a thread inside push or pop.

Producers == {"p1", "p2"}

Consumers == {"c1", "c2"}

Stopper == "s"

QueueThreads == Producers \cup Consumers \cup {Stopper}

\* the constructor
ThreadSafeQueueNew ==
    [queue_ |-> <<>>, shutdown_ |-> FALSE, size_ |-> 0, mutex_ |-> "free", cv_ |-> {}]

\* a thread outside any call; ret is what its last call returned, item the
\* argument of push or the value popped, late whether shutdown_ was already
\* set when the call started
ThreadIdle(ret, item) == [pc |-> "idle", op |-> "none", ret |-> ret, item |-> item, late |-> FALSE]

frontLast(q) == q[Len(q)]

\* queue_.front()
front(q) == Head(q)

\* the predicate of cv_.wait in pop: !queue_.empty() || shutdown_
popPredicate(q) == q.queue_ # <<>> \/ q.shutdown_

\* std::lock_guard / std::unique_lock constructor: the thread enters its call
\* and takes the mutex
lock(t, op, next, item) ==
    /\ tsqThread[t].pc = "idle"
    /\ tsq.mutex_ = "free"
    /\ tsq' = [tsq EXCEPT !.mutex_ = t]
    /\ tsqThread' = [tsqThread EXCEPT ![t] =
           [pc |-> next, op |-> op, ret |-> "none", item |-> item,
            late |-> tsq.shutdown_]]

\* push(item) and emplace(args...): lines 64, 79, 95
push_lock(t) ==
    /\ Len(tsqHist.called) < MaxItems
    /\ \E op \in {"push", "emplace"} :
           /\ lock(t, op, "push_check", Len(tsqHist.called) + 1)
           /\ tsqHist' = [tsqHist EXCEPT !.called = Append(@, t)]
    /\ UNCHANGED notTsqVars

pushNeverRejected(q) == FALSE

\* line 65: if (shutdown_)
pushRejected(q) == q.shutdown_

\* lines 65-67: the shutdown check; the throw releases the mutex
push_check(t) ==
    /\ tsqThread[t].pc = "push_check"
    /\ IF pushRejected(tsq)
       THEN /\ tsq' = [tsq EXCEPT !.mutex_ = "free"]
            /\ tsqThread' = [tsqThread EXCEPT ![t].pc = "idle", ![t].ret = "runtime_error"]
       ELSE /\ tsq' = tsq
            /\ tsqThread' = [tsqThread EXCEPT ![t].pc = "push_enqueue"]
    /\ UNCHANGED tsqHist
    /\ UNCHANGED notTsqVars

\* lines 68-70: queue_.push, size_.fetch_add, end of the locked block
push_enqueue(t) ==
    /\ tsqThread[t].pc = "push_enqueue"
    /\ tsq' = [tsq EXCEPT !.queue_ = Append(@, tsqThread[t].item),
                          !.size_ = @ + 1,
                          !.mutex_ = "free"]
    /\ tsqThread' = [tsqThread EXCEPT ![t].pc = "push_notify"]
    /\ tsqHist' = [tsqHist EXCEPT !.pushed = Append(@, tsqThread[t].item)]
    /\ UNCHANGED notTsqVars

\* line 71: cv_.notify_one() wakes one of the blocked threads, if any
push_notify(t) ==
    /\ tsqThread[t].pc = "push_notify"
    /\ \/ /\ tsq.cv_ = {}
          /\ tsq' = tsq
       \/ \E w \in tsq.cv_ : tsq' = [tsq EXCEPT !.cv_ = @ \ {w}]
    /\ tsqThread' = [tsqThread EXCEPT ![t].pc = "idle", ![t].ret = "void"]
    /\ UNCHANGED tsqHist
    /\ UNCHANGED notTsqVars

\* the item is taken from the front and the call returns it (lines 116-120,
\* 138-142); front() of an empty queue is undefined behaviour
takeFront(t) ==
    IF tsq.queue_ = <<>>
    THEN /\ tsq' = [tsq EXCEPT !.mutex_ = "free"]
         /\ tsqThread' = [tsqThread EXCEPT ![t].pc = "idle", ![t].ret = "undefined"]
         /\ UNCHANGED tsqHist
    ELSE /\ tsq' = [tsq EXCEPT !.queue_ = Tail(@), !.size_ = @ - 1, !.mutex_ = "free"]
         /\ tsqThread' = [tsqThread EXCEPT ![t].pc = "idle", ![t].ret = "value",
                                           ![t].item = front(tsq.queue_)]
         /\ tsqHist' = [tsqHist EXCEPT !.popped = Append(@, front(tsq.queue_))]

\* the call returns std::nullopt
returnNullopt(t) ==
    /\ tsq' = [tsq EXCEPT !.mutex_ = "free"]
    /\ tsqThread' = [tsqThread EXCEPT ![t].pc = "idle", ![t].ret = "nullopt"]
    /\ UNCHANGED tsqHist

\* tryPop(): line 110
tryPop_lock(t) ==
    /\ lock(t, "tryPop", "tryPop_body", 0)
    /\ UNCHANGED tsqHist
    /\ UNCHANGED notTsqVars

tryPopEmptyOrShutdown(q) == q.queue_ = <<>> \/ q.shutdown_

\* line 112: if (queue_.empty())
tryPopEmpty(q) == q.queue_ = <<>>

\* lines 112-120
tryPop_body(t) ==
    /\ tsqThread[t].pc = "tryPop_body"
    /\ IF tryPopEmpty(tsq) THEN returnNullopt(t) ELSE takeFront(t)
    /\ UNCHANGED notTsqVars

\* pop(): line 128
pop_lock(t) ==
    /\ lock(t, "pop", "pop_pred", 0)
    /\ UNCHANGED tsqHist
    /\ UNCHANGED notTsqVars

\* lines 130-132: cv_.wait(lock, pred) evaluates the predicate with the
\* mutex held, on entry and after every wake-up
pop_pred(t) ==
    /\ tsqThread[t].pc = "pop_pred"
    /\ tsqThread' = [tsqThread EXCEPT ![t].pc =
           IF popPredicate(tsq) THEN "pop_check" ELSE "pop_block"]
    /\ UNCHANGED <<tsq, tsqHist>>
    /\ UNCHANGED notTsqVars

\* the predicate was false: cv_.wait(lock) releases the mutex and blocks the
\* thread, atomically
pop_block(t) ==
    /\ tsqThread[t].pc = "pop_block"
    /\ tsq' = [tsq EXCEPT !.mutex_ = "free", !.cv_ = @ \cup {t}]
    /\ tsqThread' = [tsqThread EXCEPT ![t].pc = "pop_waiting"]
    /\ UNCHANGED tsqHist
    /\ UNCHANGED notTsqVars

\* the thread was woken: it takes the mutex again and re-evaluates
pop_wake(t) ==
    /\ tsqThread[t].pc = "pop_waiting"
    /\ t \notin tsq.cv_
    /\ tsq.mutex_ = "free"
    /\ tsq' = [tsq EXCEPT !.mutex_ = t]
    /\ tsqThread' = [tsqThread EXCEPT ![t].pc = "pop_pred"]
    /\ UNCHANGED tsqHist
    /\ UNCHANGED notTsqVars

\* lines 134-142
pop_check(t) ==
    /\ tsqThread[t].pc = "pop_check"
    /\ IF tsq.shutdown_ /\ tsq.queue_ = <<>> THEN returnNullopt(t) ELSE takeFront(t)
    /\ UNCHANGED notTsqVars

\* a condition variable may wake a blocked thread without a notification
cv_spurious(t) ==
    /\ t \in tsq.cv_
    /\ tsq' = [tsq EXCEPT !.cv_ = @ \ {t}]
    /\ UNCHANGED <<tsqThread, tsqHist>>
    /\ UNCHANGED notTsqVars

\* shutdown(), line 196: the store, made without the mutex
shutdown_store ==
    /\ tsqThread[Stopper].pc = "idle"
    /\ tsqThread[Stopper].ret = "none"
    /\ tsq' = [tsq EXCEPT !.shutdown_ = TRUE]
    /\ tsqThread' = [tsqThread EXCEPT ![Stopper].pc = "shutdown_notify",
                                      ![Stopper].op = "shutdown"]
    /\ UNCHANGED tsqHist
    /\ UNCHANGED notTsqVars

\* line 197: cv_.notify_all() wakes every thread blocked at this moment
shutdown_notify ==
    /\ tsqThread[Stopper].pc = "shutdown_notify"
    /\ tsq' = [tsq EXCEPT !.cv_ = {}]
    /\ tsqThread' = [tsqThread EXCEPT ![Stopper].pc = "idle", ![Stopper].ret = "void"]
    /\ UNCHANGED tsqHist
    /\ UNCHANGED notTsqVars

\* a step of thread t inside a call it has started
tsqInCall(t) ==
    \/ push_check(t)
    \/ push_enqueue(t)
    \/ push_notify(t)
    \/ tryPop_body(t)
    \/ pop_pred(t)
    \/ pop_block(t)
    \/ pop_wake(t)
    \/ pop_check(t)
    \/ (t = Stopper /\ shutdown_notify)

NextTsq ==
    \/ \E t \in Producers : push_lock(t)
    \/ \E t \in Producers : push_check(t)
    \/ \E t \in Producers : push_enqueue(t)
    \/ \E t \in Producers : push_notify(t)
    \/ \E t \in Consumers : tryPop_lock(t)
    \/ \E t \in Consumers : tryPop_body(t)
    \/ \E t \in Consumers : pop_lock(t)
    \/ \E t \in Consumers : pop_pred(t)
    \/ \E t \in Consumers : pop_block(t)
    \/ \E t \in Consumers : pop_wake(t)
    \/ \E t \in Consumers : pop_check(t)
    \/ \E t \in Consumers : cv_spurious(t)
    \/ shutdown_store
    \/ shutdown_notify

\* ---------------------------------------------------------------------
\* BoundedThreadSafeQueue
\* ---------------------------------------------------------------------
\* The member functions keep the mutex until they return, notifications
\* included; shutdown() stores the flag and notifies without locking.

\* ---- popFor, clear, size, empty and the move constructor ---------------

\* size(): line 179
tsq_size(q) == q.size_

\* empty(): line 172
tsq_empty(q) == q.size_ = 0

\* popFor(timeout): line 151
popFor_lock(t) ==
    /\ lock(t, "popFor", "popFor_pred", 0)
    /\ UNCHANGED tsqHist
    /\ UNCHANGED notTsqVars

\* lines 153-155: cv_.wait_for(lock, timeout, pred) evaluates the predicate
\* with the mutex held, on entry and after every wake-up
popFor_pred(t) ==
    /\ tsqThread[t].pc = "popFor_pred"
    /\ tsqThread' = [tsqThread EXCEPT ![t].pc =
           IF popPredicate(tsq) THEN "popFor_check" ELSE "popFor_block"]
    /\ UNCHANGED <<tsq, tsqHist>>
    /\ UNCHANGED notTsqVars

\* the predicate was false: the wait releases the mutex and blocks the thread
popFor_block(t) ==
    /\ tsqThread[t].pc = "popFor_block"
    /\ tsq' = [tsq EXCEPT !.mutex_ = "free", !.cv_ = @ \cup {t}]
    /\ tsqThread' = [tsqThread EXCEPT ![t].pc = "popFor_waiting"]
    /\ UNCHANGED tsqHist
    /\ UNCHANGED notTsqVars

\* the thread was woken before the timeout: it takes the mutex again and
\* re-evaluates the predicate
popFor_wake(t) ==
    /\ tsqThread[t].pc = "popFor_waiting"
    /\ t \notin tsq.cv_
    /\ tsq.mutex_ = "free"
    /\ tsq' = [tsq EXCEPT !.mutex_ = t]
    /\ tsqThread' = [tsqThread EXCEPT ![t].pc = "popFor_pred"]
    /\ UNCHANGED tsqHist
    /\ UNCHANGED notTsqVars

\* the timeout elapsed: the thread takes the mutex again and wait_for returns
\* what the predicate is now; on false popFor returns std::nullopt (line 157)
popFor_timeout(t) ==
    /\ tsqThread[t].pc = "popFor_waiting"
    /\ tsq.mutex_ = "free"
    /\ IF popPredicate(tsq)
       THEN /\ tsq' = [tsq EXCEPT !.mutex_ = t, !.cv_ = @ \ {t}]
            /\ tsqThread' = [tsqThread EXCEPT ![t].pc = "popFor_check"]
       ELSE /\ tsq' = [tsq EXCEPT !.cv_ = @ \ {t}]
            /\ tsqThread' = [tsqThread EXCEPT ![t].pc = "idle", ![t].ret = "nullopt"]
    /\ UNCHANGED tsqHist
    /\ UNCHANGED notTsqVars

\* lines 157-165, the wait having returned true
popFor_check(t) ==
    /\ tsqThread[t].pc = "popFor_check"
    /\ IF tsq.shutdown_ /\ tsq.queue_ = <<>> THEN returnNullopt(t) ELSE takeFront(t)
    /\ UNCHANGED notTsqVars

\* clear(): line 186
clear_lock(t) ==
    /\ lock(t, "clear", "clear_body", 0)
    /\ UNCHANGED tsqHist
    /\ UNCHANGED notTsqVars

\* lines 187-190: the queue is swapped with an empty one and size_ is stored
clear_body(t) ==
    /\ tsqThread[t].pc = "clear_body"
    /\ tsq' = [tsq EXCEPT !.queue_ = <<>>, !.size_ = 0, !.mutex_ = "free"]
    /\ tsqThread' = [tsqThread EXCEPT ![t].pc = "idle", ![t].ret = "void"]
    /\ UNCHANGED tsqHist
    /\ UNCHANGED notTsqVars

\* ThreadSafeQueue(ThreadSafeQueue&& other), line 43: the thread constructing
\* the new queue locks the mutex of tsq
move_lock(t) ==
    /\ tsqMoved = <<>>
    /\ lock(t, "move", "move_body", 0)
    /\ UNCHANGED tsqHist
    /\ UNCHANGED notTsqVars

\* lines 44-47: queue_ is move-constructed from other.queue_, which leaves
\* the std::deque of other without elements; the two atomics are copied and
\* nothing is stored to those of other
move_body(t) ==
    /\ tsqThread[t].pc = "move_body"
    /\ tsqMoved' = <<[queue_ |-> tsq.queue_, shutdown_ |-> tsq.shutdown_,
                      size_ |-> tsq.size_, mutex_ |-> "free", cv_ |-> {}]>>
    /\ tsq' = [tsq EXCEPT !.queue_ = <<>>, !.mutex_ = "free"]
    /\ tsqThread' = [tsqThread EXCEPT ![t].pc = "idle", ![t].ret = "void"]
    /\ UNCHANGED tsqHist
    /\ UNCHANGED notTsqMovedVars

\* the producer that pushes, the consumer that calls tryPop and pop, and the
\* one that calls popFor, clear and the move constructor
Pusher == "p1"

Popper == "c1"

Clearer == "c2"

NextTsqSize ==
    \/ push_lock(Pusher)
    \/ push_check(Pusher)
    \/ push_enqueue(Pusher)
    \/ push_notify(Pusher)
    \/ tryPop_lock(Popper)
    \/ tryPop_body(Popper)
    \/ pop_lock(Popper)
    \/ pop_pred(Popper)
    \/ pop_block(Popper)
    \/ pop_wake(Popper)
    \/ pop_check(Popper)
    \/ popFor_lock(Clearer)
    \/ popFor_pred(Clearer)
    \/ popFor_block(Clearer)
    \/ popFor_wake(Clearer)
    \/ popFor_timeout(Clearer)
    \/ popFor_check(Clearer)
    \/ clear_lock(Clearer)
    \/ clear_body(Clearer)
    \/ move_lock(Clearer)
    \/ move_body(Clearer)
    \/ \E t \in Consumers : cv_spurious(t)
    \/ shutdown_store
    \/ shutdown_notify

BProducers == {"bp1", "bp2"}

BConsumers == {"bc1"}

BStopper == "bs"

BoundedThreads == BProducers \cup BConsumers \cup {BStopper}

\* the constructor
BoundedThreadSafeQueue(max_size) ==
    [queue_ |-> <<>>, max_size_ |-> max_size, shutdown_ |-> FALSE, size_ |-> 0,
     mutex_ |-> "free", cv_not_empty_ |-> {}, cv_not_full_ |-> {}]

\* a thread outside any call; blockedAt is the number of items returned so
\* far when the call found its wait predicate false, -1 if it never did
BThreadIdle == [pc |-> "idle", op |-> "none", ret |-> "none", item |-> 0, blockedAt |-> -1]

b_new ==
    /\ bq = <<>>
    /\ \E max_size \in 0..MaxCapacity : bq' = <<BoundedThreadSafeQueue(max_size)>>
    /\ UNCHANGED <<bqThread, bqHist>>
    /\ UNCHANGED notBqVars

\* the queue object
theBq == bq[1]

\* the queue object after the step
theBq_next == bq'[1]

\* std::unique_lock constructor: the thread enters its call and takes the mutex
b_lock(t, op, next, item) ==
    /\ bq # <<>>
    /\ bqThread[t].pc = "idle"
    /\ theBq.mutex_ = "free"
    /\ bq' = [bq EXCEPT ![1].mutex_ = t]
    /\ bqThread' = [bqThread EXCEPT ![t] =
           [pc |-> next, op |-> op, ret |-> "none", item |-> item, blockedAt |-> -1]]

\* the call returns (or throws) and the lock goes out of scope
b_return(t, q, ret) ==
    /\ bq' = <<[q EXCEPT !.mutex_ = "free"]>>
    /\ bqThread' = [bqThread EXCEPT ![t].pc = "idle", ![t].ret = ret]

\* cv.notify_one(): the waiting threads left after one of them, if any, woke
notify_one(waiting) ==
    IF waiting = {} THEN {{}} ELSE {waiting \ {w} : w \in waiting}

\* queue_.push(item); size_.fetch_add(1); cv_not_empty_.notify_one()
b_enqueue(q, item) ==
    {[q EXCEPT !.queue_ = Append(@, item), !.size_ = @ + 1, !.cv_not_empty_ = rest] :
        rest \in notify_one(q.cv_not_empty_)}

tryPushFullStrict(q) == Len(q.queue_) > q.max_size_

\* line 251: queue_.size() >= max_size_
tryPushFull(q) == Len(q.queue_) >= q.max_size_

\* tryPush(item), line 249
tryPush_lock(t) ==
    /\ Len(bqHist.called) < MaxItems
    /\ b_lock(t, "tryPush", "tryPush_check", Len(bqHist.called) + 1)
    /\ bqHist' = [bqHist EXCEPT !.called = Append(@, t)]
    /\ UNCHANGED notBqVars

\* lines 251-253
tryPush_full(t) ==
    /\ bqThread[t].pc = "tryPush_check"
    /\ tryPushFull(theBq)
    /\ b_return(t, theBq, "false")
    /\ UNCHANGED bqHist
    /\ UNCHANGED notBqVars

\* lines 255-263
tryPush_check(t) ==
    /\ bqThread[t].pc = "tryPush_check"
    /\ ~tryPushFull(theBq)
    /\ IF theBq.shutdown_
       THEN /\ b_return(t, theBq, "runtime_error")
            /\ UNCHANGED bqHist
       ELSE /\ \E q \in b_enqueue(theBq, bqThread[t].item) : b_return(t, q, "true")
            /\ bqHist' = [bqHist EXCEPT !.pushed = Append(@, bqThread[t].item)]
    /\ UNCHANGED notBqVars

pushPredicateNoBound(q) == TRUE

\* lines 272-275: the predicate of cv_not_full_.wait
pushPredicate(q) == Len(q.queue_) < q.max_size_ \/ q.shutdown_

\* push(item), line 270
b_push_lock(t) ==
    /\ Len(bqHist.called) < MaxItems
    /\ b_lock(t, "push", "push_pred", Len(bqHist.called) + 1)
    /\ bqHist' = [bqHist EXCEPT !.called = Append(@, t)]
    /\ UNCHANGED notBqVars

\* lines 272-275: the predicate is evaluated with the mutex held
b_push_pred(t) ==
    /\ bqThread[t].pc = "push_pred"
    /\ IF pushPredicate(theBq)
       THEN bqThread' = [bqThread EXCEPT ![t].pc = "push_check"]
       ELSE bqThread' = [bqThread EXCEPT ![t].pc = "push_block",
                ![t].blockedAt = IF @ = -1 THEN Len(bqHist.popped) ELSE @]
    /\ UNCHANGED <<bq, bqHist>>
    /\ UNCHANGED notBqVars

\* the predicate was false: the wait releases the mutex and blocks the thread
b_push_block(t) ==
    /\ bqThread[t].pc = "push_block"
    /\ bq' = [bq EXCEPT ![1].mutex_ = "free", ![1].cv_not_full_ = @ \cup {t}]
    /\ bqThread' = [bqThread EXCEPT ![t].pc = "push_waiting"]
    /\ UNCHANGED bqHist
    /\ UNCHANGED notBqVars

\* the thread was woken: it takes the mutex again and re-evaluates
b_push_wake(t) ==
    /\ bqThread[t].pc = "push_waiting"
    /\ t \notin theBq.cv_not_full_
    /\ theBq.mutex_ = "free"
    /\ bq' = [bq EXCEPT ![1].mutex_ = t]
    /\ bqThread' = [bqThread EXCEPT ![t].pc = "push_pred"]
    /\ UNCHANGED bqHist
    /\ UNCHANGED notBqVars

\* lines 277-283
b_push_check(t) ==
    /\ bqThread[t].pc = "push_check"
    /\ IF theBq.shutdown_
       THEN /\ b_return(t, theBq, "runtime_error")
            /\ UNCHANGED bqHist
       ELSE /\ \E q \in b_enqueue(theBq, bqThread[t].item) : b_return(t, q, "void")
            /\ bqHist' = [bqHist EXCEPT !.pushed = Append(@, bqThread[t].item)]
    /\ UNCHANGED notBqVars

\* pop(), line 290
b_pop_lock(t) ==
    /\ b_lock(t, "pop", "pop_pred", 0)
    /\ UNCHANGED bqHist
    /\ UNCHANGED notBqVars

\* lines 292-294
b_pop_pred(t) ==
    /\ bqThread[t].pc = "pop_pred"
    /\ bqThread' = [bqThread EXCEPT ![t].pc =
           IF popPredicate(theBq) THEN "pop_check" ELSE "pop_block"]
    /\ UNCHANGED <<bq, bqHist>>
    /\ UNCHANGED notBqVars

b_pop_block(t) ==
    /\ bqThread[t].pc = "pop_block"
    /\ bq' = [bq EXCEPT ![1].mutex_ = "free", ![1].cv_not_empty_ = @ \cup {t}]
    /\ bqThread' = [bqThread EXCEPT ![t].pc = "pop_waiting"]
    /\ UNCHANGED bqHist
    /\ UNCHANGED notBqVars

b_pop_wake(t) ==
    /\ bqThread[t].pc = "pop_waiting"
    /\ t \notin theBq.cv_not_empty_
    /\ theBq.mutex_ = "free"
    /\ bq' = [bq EXCEPT ![1].mutex_ = t]
    /\ bqThread' = [bqThread EXCEPT ![t].pc = "pop_pred"]
    /\ UNCHANGED bqHist
    /\ UNCHANGED notBqVars

\* lines 296-305; front() of an empty queue is undefined behaviour
b_pop_check(t) ==
    /\ bqThread[t].pc = "pop_check"
    /\ IF theBq.shutdown_ /\ theBq.queue_ = <<>>
       THEN /\ b_return(t, theBq, "nullopt")
            /\ UNCHANGED bqHist
       ELSE IF theBq.queue_ = <<>>
       THEN /\ b_return(t, theBq, "undefined")
            /\ UNCHANGED bqHist
       ELSE /\ \E rest \in notify_one(theBq.cv_not_full_) :
                   /\ bq' = <<[theBq EXCEPT !.queue_ = Tail(@), !.size_ = @ - 1,
                                            !.cv_not_full_ = rest, !.mutex_ = "free"]>>
                   /\ bqThread' = [bqThread EXCEPT ![t].pc = "idle", ![t].ret = "value",
                                                   ![t].item = front(theBq.queue_)]
            /\ bqHist' = [bqHist EXCEPT !.popped = Append(@, front(theBq.queue_))]
    /\ UNCHANGED notBqVars

\* a condition variable may wake a blocked thread without a notification
b_spurious(t) ==
    /\ bq # <<>>
    /\ t \in theBq.cv_not_empty_ \cup theBq.cv_not_full_
    /\ bq' = [bq EXCEPT ![1].cv_not_empty_ = @ \ {t}, ![1].cv_not_full_ = @ \ {t}]
    /\ UNCHANGED <<bqThread, bqHist>>
    /\ UNCHANGED notBqVars

\* shutdown(), line 325
b_shutdown_store ==
    /\ bq # <<>>
    /\ bqThread[BStopper].pc = "idle"
    /\ bqThread[BStopper].ret = "none"
    /\ bq' = [bq EXCEPT ![1].shutdown_ = TRUE]
    /\ bqThread' = [bqThread EXCEPT ![BStopper].pc = "notify_not_empty",
                                    ![BStopper].op = "shutdown"]
    /\ UNCHANGED bqHist
    /\ UNCHANGED notBqVars

\* line 326
b_shutdown_notify_not_empty ==
    /\ bqThread[BStopper].pc = "notify_not_empty"
    /\ bq' = [bq EXCEPT ![1].cv_not_empty_ = {}]
    /\ bqThread' = [bqThread EXCEPT ![BStopper].pc = "notify_not_full"]
    /\ UNCHANGED bqHist
    /\ UNCHANGED notBqVars

\* line 327
b_shutdown_notify_not_full ==
    /\ bqThread[BStopper].pc = "notify_not_full"
    /\ bq' = [bq EXCEPT ![1].cv_not_full_ = {}]
    /\ bqThread' = [bqThread EXCEPT ![BStopper].pc = "idle", ![BStopper].ret = "void"]
    /\ UNCHANGED bqHist
    /\ UNCHANGED notBqVars

\* a step of thread t inside a call it has started
bqInCall(t) ==
    \/ tryPush_full(t)
    \/ tryPush_check(t)
    \/ b_push_pred(t)
    \/ b_push_block(t)
    \/ b_push_wake(t)
    \/ b_push_check(t)
    \/ b_pop_pred(t)
    \/ b_pop_block(t)
    \/ b_pop_wake(t)
    \/ b_pop_check(t)
    \/ (t = BStopper /\ b_shutdown_notify_not_empty)
    \/ (t = BStopper /\ b_shutdown_notify_not_full)

NextBq ==
    \/ b_new
    \/ \E t \in BProducers : tryPush_lock(t)
    \/ \E t \in BProducers : tryPush_full(t)
    \/ \E t \in BProducers : tryPush_check(t)
    \/ \E t \in BProducers : b_push_lock(t)
    \/ \E t \in BProducers : b_push_pred(t)
    \/ \E t \in BProducers : b_push_block(t)
    \/ \E t \in BProducers : b_push_wake(t)
    \/ \E t \in BProducers : b_push_check(t)
    \/ \E t \in BConsumers : b_pop_lock(t)
    \/ \E t \in BConsumers : b_pop_pred(t)
    \/ \E t \in BConsumers : b_pop_block(t)
    \/ \E t \in BConsumers : b_pop_wake(t)
    \/ \E t \in BConsumers : b_pop_check(t)
    \/ \E t \in BoundedThreads : b_spurious(t)
    \/ b_shutdown_store
    \/ b_shutdown_notify_not_empty
    \/ b_shutdown_notify_not_full

\* ---------------------------------------------------------------------
\* SwapValidator
\* ---------------------------------------------------------------------
\* A field value is a text: the sequence of its characters.  A field of the
\* parsed data is <<>> when the map has no such key and <<text>> when it has.
\* The doubles of the validator are the limits and the values std::stod
\* yields: integers here, since no text of the model has a fraction, an
\* exponent or the words inf and nan.

LowerLetters == <<"a", "b", "c", "d", "e", "f", "g", "h", "i", "j", "k", "l", "m", "n", "o", "p", "q", "r", "s", "t", "u", "v", "w", "x", "y", "z">>

UpperLetters == <<"A", "B", "C", "D", "E", "F", "G", "H", "I", "J", "K", "L", "M", "N", "O", "P", "Q", "R", "S", "T", "U", "V", "W", "X", "Y", "Z">>

toupperIdentity(c) == c

\* ::toupper in the C locale
toupper(c) ==
    IF \E i \in 1..Len(LowerLetters) : LowerLetters[i] = c
    THEN UpperLetters[CHOOSE i \in 1..Len(LowerLetters) : LowerLetters[i] = c]
    ELSE c

\* std::transform(upper.begin(), upper.end(), upper.begin(), ::toupper)
toupperAll(text) == [i \in 1..Len(text) |-> toupper(text[i])]

DigitChars == <<"0", "1", "2", "3", "4", "5", "6", "7", "8", "9">>

isdigit(c) == \E i \in 1..10 : DigitChars[i] = c

DigitValue(c) == (CHOOSE i \in 1..10 : DigitChars[i] = c) - 1

isspace(c) == c = " "

RECURSIVE skipSpace(_)
\* strtod skips leading white space
skipSpace(s) == IF s # <<>> /\ isspace(Head(s)) THEN skipSpace(Tail(s)) ELSE s

RECURSIVE digitsValue(_, _)
\* the value of the longest prefix of s made of decimal digits, after acc
digitsValue(s, acc) ==
    IF s = <<>> \/ ~isdigit(Head(s)) THEN acc
    ELSE digitsValue(Tail(s), acc * 10 + DigitValue(Head(s)))

\* std::stod(text) with no pos argument: white space is skipped, then the
\* longest prefix that is a number is converted and the rest is ignored;
\* std::invalid_argument when there is no such prefix.  The texts of the
\* model have no '.', no exponent and no hexadecimal, inf or nan form, so
\* the prefix is a sign and decimal digits; none is long enough for
\* std::out_of_range.
stod(text) ==
    LET s == skipSpace(text)
        signed == s # <<>> /\ Head(s) \in {"-", "+"}
        body == IF signed THEN Tail(s) ELSE s
    IN  IF body = <<>> \/ ~isdigit(Head(body))
        THEN [thrown |-> "invalid_argument", value |-> 0]
        ELSE [thrown |-> "none",
              value |-> IF Head(s) = "-" THEN 0 - digitsValue(body, 0)
                        ELSE digitsValue(body, 0)]

\* std::string::find(pat) != npos
contains(text, pat) ==
    \E i \in 0..(Len(text) - Len(pat)) : SubSeq(text, i + 1, i + Len(pat)) = pat

\* std::regex_match(text, "^[A-Z]{3}$")
currency_regex(text) ==
    Len(text) = 3 /\ \A i \in 1..3 : \E j \in 1..Len(UpperLetters) : UpperLetters[j] = text[i]

\* std::regex_match(text, "^\\d+[DWMY]$") with std::regex::icase
tenor_regex(text) ==
    /\ Len(text) >= 2
    /\ \A i \in 1..(Len(text) - 1) : isdigit(text[i])
    /\ toupper(text[Len(text)]) \in {"D", "W", "M", "Y"}

\* the keys of the parsed data
Fields == {"direction", "currency", "notional_currency", "notional", "quantity",
           "tenor", "rate", "strike", "day_count", "client"}

\* the empty map
NoData == [f \in Fields |-> <<>>]

\* getValue(data, key): the value, unless the key is missing or its text empty
getValue(data, key) == IF data[key] # <<>> /\ data[key][1] # <<>> THEN data[key] ELSE <<>>

\* the ValidationResult constructor; the message is its fixed part
ValidationResult(severity, field, message) ==
    [severity |-> severity, field |-> field, message |-> message]

isErrorOrWarning(r) == r.severity # "INFO"

isError(r) == r.severity = "ERROR"

isWarning(r) == r.severity = "WARNING"

validateDirection(v, data) ==
    LET direction == getValue(data, "direction") IN
    IF direction = <<>>
    THEN IF v.strict_mode_
         THEN <<ValidationResult("ERROR", "direction", "Direction is required")>>
         ELSE <<>>
    ELSE LET upper == toupperAll(direction[1]) IN
         IF /\ upper # <<"B", "U", "Y">>
            /\ upper # <<"S", "E", "L", "L">>
            /\ upper # <<"T", "W", "O", "_", "W", "A", "Y">>
            /\ upper # <<"T", "W", "O", "-", "W", "A", "Y">>
            /\ upper # <<"P", "A", "Y">>
            /\ upper # <<"R", "E", "C", "E", "I", "V", "E">>
         THEN <<ValidationResult("ERROR", "direction", "Invalid direction")>>
         ELSE <<>>

validateCurrency(v, data) ==
    LET first == getValue(data, "currency")
        currency == IF first = <<>> THEN getValue(data, "notional_currency") ELSE first
    IN  IF currency = <<>>
        THEN IF v.strict_mode_
             THEN <<ValidationResult("WARNING", "currency", "Currency not specified")>>
             ELSE <<>>
        ELSE IF ~currency_regex(currency[1])
             THEN <<ValidationResult("ERROR", "currency", "Invalid currency code")>>
             ELSE <<>>

validateNotional(v, data) ==
    LET first == getValue(data, "notional")
        notional_str == IF first = <<>> THEN getValue(data, "quantity") ELSE first
    IN  IF notional_str = <<>>
        THEN IF v.strict_mode_
             THEN <<ValidationResult("ERROR", "notional", "Notional amount is required")>>
             ELSE <<>>
        ELSE LET parsed == stod(notional_str[1])
                 notional == parsed.value
             IN  IF parsed.thrown # "none"
                 THEN <<ValidationResult("ERROR", "notional", "Invalid notional value")>>
                 ELSE IF notional <= 0
                 THEN <<ValidationResult("ERROR", "notional", "Notional must be positive")>>
                 ELSE IF notional < v.min_notional_
                 THEN <<ValidationResult("WARNING", "notional", "Notional below minimum")>>
                 ELSE IF notional > v.max_notional_
                 THEN <<ValidationResult("WARNING", "notional", "Notional exceeds maximum")>>
                 ELSE <<>>

validateTenor(v, data) ==
    LET tenor == getValue(data, "tenor") IN
    IF tenor = <<>> THEN <<>>
    ELSE IF ~tenor_regex(tenor[1])
         THEN <<ValidationResult("ERROR", "tenor", "Invalid tenor format")>>
         ELSE <<>>

\* the values of the model are integers, for which rate < -0.05 is rate < 0
validateRate(v, data) ==
    LET first == getValue(data, "rate")
        rate_str == IF first = <<>> THEN getValue(data, "strike") ELSE first
    IN  IF rate_str = <<>> THEN <<>>
        ELSE LET parsed == stod(rate_str[1])
                 rate == parsed.value
             IN  IF parsed.thrown # "none"
                 THEN <<ValidationResult("ERROR", "rate", "Invalid rate value")>>
                 ELSE IF rate < 0 \/ rate > 1
                 THEN <<ValidationResult("WARNING", "rate", "Rate outside typical range")>>
                 ELSE <<>>

validateDayCount(v, data) ==
    LET day_count == getValue(data, "day_count") IN
    IF day_count = <<>> THEN <<>>
    ELSE LET upper == toupperAll(day_count[1]) IN
         IF /\ ~contains(upper, <<"A", "C", "T", "/", "3", "6", "0">>)
            /\ ~contains(upper, <<"A", "C", "T", "/", "3", "6", "5">>)
            /\ ~contains(upper, <<"3", "0", "/", "3", "6", "0">>)
            /\ ~contains(upper, <<"A", "C", "T", "/", "A", "C", "T">>)
         THEN <<ValidationResult("WARNING", "day_count", "Unusual day count convention")>>
         ELSE <<>>

\* the custom rule of the test suite: it looks the key up itself, so an
\* empty text is a text
vipRule(data) ==
    IF data["client"] # <<>> /\ data["client"][1] = <<"V", "I", "P", "_", "C", "L", "I", "E", "N", "T">>
    THEN <<ValidationResult("INFO", "client", "VIP client detected")>>
    ELSE <<>>

\* the names of the six built-in rules
BuiltinNames == {"direction", "currency", "notional", "tenor", "rate", "day_count"}

\* registerDefaultRules(): each name is bound to a closure over this that
\* calls the member function
registerDefaultRules ==
    [n \in BuiltinNames |->
        CASE n = "direction" -> "validateDirection"
          [] n = "currency"  -> "validateCurrency"
          [] n = "notional"  -> "validateNotional"
          [] n = "tenor"     -> "validateTenor"
          [] n = "rate"      -> "validateRate"
          [] n = "day_count" -> "validateDayCount"]

\* min_notional_(1000.0)
DefaultMinNotional == 1000

\* max_notional_(1e12), which is beyond the integers of TLC: the model has
\* the largest of them instead, and no text of the model converts to a
\* value that lies between the two
DefaultMaxNotional == 2147483647

\* the constructor
SwapValidatorNew ==
    [rules_ |-> registerDefaultRules,
     strict_mode_ |-> FALSE,
     min_notional_ |-> DefaultMinNotional,
     max_notional_ |-> DefaultMaxNotional]

\* rule(parsed_data): the call of a std::function of the registry
invoke(rule, v, data) ==
    CASE rule = "validateDirection" -> validateDirection(v, data)
      [] rule = "validateCurrency"  -> validateCurrency(v, data)
      [] rule = "validateNotional"  -> validateNotional(v, data)
      [] rule = "validateTenor"     -> validateTenor(v, data)
      [] rule = "validateRate"      -> validateRate(v, data)
      [] rule = "validateDayCount"  -> validateDayCount(v, data)
      [] rule = "vipRule"           -> vipRule(data)

\* the order in which a std::map<std::string, ...> iterates over the rule
\* names of the model: the order of std::less<std::string>
RuleOrder == <<"currency", "day_count", "direction", "notional", "rate", "tenor", "vip_client">>

\* the names of the registered rules, in the order of iteration
ruleNames(v) == SelectSeq(RuleOrder, LAMBDA n : n \in DOMAIN v.rules_)

RECURSIVE runRules(_, _, _)
\* the loop of validate(), over the names still to visit
runRules(v, data, names) ==
    IF names = <<>> THEN <<>>
    ELSE invoke(v.rules_[Head(names)], v, data) \o runRules(v, data, Tail(names))

\* validate(parsed_data)
validate(v, data) == runRules(v, data, ruleNames(v))

\* isValid(parsed_data)
isValid(v, data) == \A i \in 1..Len(validate(v, data)) : ~isError(validate(v, data)[i])

\* getErrors(parsed_data)
getErrors(v, data) == SelectSeq(validate(v, data), isError)

\* getWarnings(parsed_data)
getWarnings(v, data) == SelectSeq(validate(v, data), isWarning)

addRuleKeep(rules, rule_name, rule) ==
    [n \in DOMAIN rules \cup {rule_name} |-> IF n \in DOMAIN rules THEN rules[n] ELSE rule]

\* rules_[rule_name] = std::move(rule)
addRuleResult(rules, rule_name, rule) ==
    [n \in DOMAIN rules \cup {rule_name} |-> IF n = rule_name THEN rule ELSE rules[n]]

\* rules_.erase(rule_name)
removeRuleResult(rules, rule_name) == [n \in DOMAIN rules \ {rule_name} |-> rules[n]]

\* ruleCount()
ruleCount(v) == Cardinality(DOMAIN v.rules_)

\* --- the inputs of the validator ---

\* names given to addRule and removeRule
AddNames == {"direction", "vip_client"}

RemoveNames == {"direction", "notional", "vip_client"}

\* rules given to addRule
CustomRules == {"vipRule"}

\* limits given to setMinNotional and setMaxNotional
Limits == {1, 10}

\* the characters of the numeric texts
NumChars == {"0", "1", "-", ","}

RECURSIVE TextsUpTo(_)
\* the texts over NumChars of length n or less
TextsUpTo(n) ==
    IF n = 0 THEN {<<>>}
    ELSE LET shorter == TextsUpTo(n - 1)
         IN  shorter \cup {Append(t, c) : t \in shorter, c \in NumChars}

NumTexts == TextsUpTo(MaxTextLen)

\* texts for the direction field
DirectionTexts == {<<"B", "U", "Y">>,
                   <<"b", "u", "y">>,
                   <<"S", "e", "l", "l">>,
                   <<"T", "W", "O", "_", "W", "A", "Y">>,
                   <<"t", "w", "o", "-", "w", "a", "y">>,
                   <<"P", "a", "y">>,
                   <<"R", "E", "C", "E", "I", "V", "E">>,
                   <<"H", "O", "L", "D">>,
                   <<"B", "U", "Y", "S">>,
                   <<"B", "U">>,
                   <<" ", "B", "U", "Y">>,
                   <<"T", "W", "O", "W", "A", "Y">>,
                   <<"p", "a", "y">>,
                   <<"S", "E", "L", "L">>}

\* maps with the direction alone, missing, empty or one of the texts
DirectionData ==
    {[NoData EXCEPT !.direction = d] :
        d \in {<<>>} \cup {<<t>> : t \in {<<>>} \cup DirectionTexts}}

\* maps with a notional, a quantity, both or neither
NotionalData ==
    {[NoData EXCEPT !.notional = n, !.quantity = q] :
        n \in {<<>>} \cup {<<t>> : t \in NumTexts},
        q \in {<<>>, <<<<"1", "0">>>>, <<<<",">>>>}}

\* maps with a rate, a strike, both or neither
RateData ==
    {[NoData EXCEPT !.rate = r, !.strike = k] :
        r \in {<<>>} \cup {<<t>> : t \in NumTexts},
        k \in {<<>>, <<<<"2">>>>}}

\* maps with several fields
MixedData ==
    {[direction |-> <<<<"p", "a", "y">>>>, currency |-> <<<<"U", "S", "D">>>>, notional_currency |-> <<>>,
      notional |-> <<<<"1", "0">>>>, quantity |-> <<>>, tenor |-> <<<<"5", "Y">>>>,
      rate |-> <<<<"0">>>>, strike |-> <<>>, day_count |-> <<<<"a", "c", "t", "/", "3", "6", "0">>>>,
      client |-> <<<<"V", "I", "P", "_", "C", "L", "I", "E", "N", "T">>>>],
     [direction |-> <<<<"H", "O", "L", "D">>>>, currency |-> <<<<"u", "s", "d">>>>, notional_currency |-> <<<<"E", "U", "R">>>>,
      notional |-> <<<<"-", "1">>>>, quantity |-> <<<<"1", "0">>>>, tenor |-> <<<<"5">>>>,
      rate |-> <<<<",">>>>, strike |-> <<<<"0">>>>, day_count |-> <<<<"3", "0">>>>,
      client |-> <<<<"V", "I", "P">>>>],
     [direction |-> <<>>, currency |-> <<>>, notional_currency |-> <<<<"E", "U", "R">>>>,
      notional |-> <<>>, quantity |-> <<<<"1">>>>, tenor |-> <<<<"1", "0", "m">>>>,
      rate |-> <<>>, strike |-> <<<<"2">>>>, day_count |-> <<<<"3", "0", "/", "3", "6", "0", " ", "I", "S", "D", "A">>>>,
      client |-> <<<<"V", "I", "P", "_", "C", "L", "I", "E", "N", "T">>>>],
     [direction |-> <<<<"S", "E", "L", "L">>>>, currency |-> <<>>, notional_currency |-> <<>>,
      notional |-> <<>>, quantity |-> <<>>, tenor |-> <<>>,
      rate |-> <<<<"-", "1">>>>, strike |-> <<>>, day_count |-> <<>>,
      client |-> <<<<>>>>]}

ParsedData == DirectionData \cup NotionalData \cup RateData \cup MixedData

\* the record of the last call made on the validator
VCall(op) ==
    [op |-> op, rule_name |-> "", rule |-> "", strict |-> FALSE, limit |-> 0,
     data |-> NoData, invoked |-> <<>>, results |-> <<>>, valid |-> FALSE]

\* the calls that return something about a map
Queries == {"validate", "isValid", "getErrors", "getWarnings"}

\* --- the operations ---

addRule ==
    \E rule_name \in AddNames, rule \in CustomRules :
        /\ validator' = [validator EXCEPT !.rules_ = addRuleResult(@, rule_name, rule)]
        /\ vCall' = [VCall("addRule") EXCEPT !.rule_name = rule_name, !.rule = rule]
        /\ UNCHANGED notValidatorVars

removeRule ==
    \E rule_name \in RemoveNames :
        /\ validator' = [validator EXCEPT !.rules_ = removeRuleResult(@, rule_name)]
        /\ vCall' = [VCall("removeRule") EXCEPT !.rule_name = rule_name]
        /\ UNCHANGED notValidatorVars

setStrictMode ==
    \E strict \in BOOLEAN :
        /\ validator' = [validator EXCEPT !.strict_mode_ = strict]
        /\ vCall' = [VCall("setStrictMode") EXCEPT !.strict = strict]
        /\ UNCHANGED notValidatorVars

setMinNotional ==
    \E min_notional \in Limits :
        /\ validator' = [validator EXCEPT !.min_notional_ = min_notional]
        /\ vCall' = [VCall("setMinNotional") EXCEPT !.limit = min_notional]
        /\ UNCHANGED notValidatorVars

setMaxNotional ==
    \E max_notional \in Limits :
        /\ validator' = [validator EXCEPT !.max_notional_ = max_notional]
        /\ vCall' = [VCall("setMaxNotional") EXCEPT !.limit = max_notional]
        /\ UNCHANGED notValidatorVars

\* validate(parsed_data); the caller holds the result of one query at a time
validateCall ==
    /\ vCall.op \notin Queries
    /\ \E parsed_data \in ParsedData :
           vCall' = [VCall("validate") EXCEPT !.data = parsed_data,
                         !.invoked = ruleNames(validator),
                         !.results = validate(validator, parsed_data)]
    /\ UNCHANGED validator
    /\ UNCHANGED notValidatorVars

isValidCall ==
    /\ vCall.op \notin Queries
    /\ \E parsed_data \in ParsedData :
           vCall' = [VCall("isValid") EXCEPT !.data = parsed_data,
                         !.valid = isValid(validator, parsed_data)]
    /\ UNCHANGED validator
    /\ UNCHANGED notValidatorVars

getErrorsCall ==
    /\ vCall.op \notin Queries
    /\ \E parsed_data \in ParsedData :
           vCall' = [VCall("getErrors") EXCEPT !.data = parsed_data,
                         !.results = getErrors(validator, parsed_data)]
    /\ UNCHANGED validator
    /\ UNCHANGED notValidatorVars

getWarningsCall ==
    /\ vCall.op \notin Queries
    /\ \E parsed_data \in ParsedData :
           vCall' = [VCall("getWarnings") EXCEPT !.data = parsed_data,
                         !.results = getWarnings(validator, parsed_data)]
    /\ UNCHANGED validator
    /\ UNCHANGED notValidatorVars

\* the caller lets go of the result of its query
discard ==
    /\ vCall.op \in Queries
    /\ vCall' = VCall("none")
    /\ UNCHANGED validator
    /\ UNCHANGED notValidatorVars

NextValidator ==
    \/ addRule
    \/ removeRule
    \/ setStrictMode
    \/ setMinNotional
    \/ setMaxNotional
    \/ validateCall
    \/ isValidCall
    \/ getErrorsCall
    \/ getWarningsCall
    \/ discard

\* ---------------------------------------------------------------------
\* SwaptionPricer
\* ---------------------------------------------------------------------
\* The tenor of a swap priced here is held as the sequence of its characters.
\* A price, a vega and a volatility are numbers of the model or NaN; the
\* volatility is counted in hundredths (20 is 0.20, 1 is 0.01).

INT_MAX == 2147483647

RECURSIVE stoiDigits(_, _)
\* the value of a string of decimal digits, -1 when it does not fit an int
stoiDigits(s, acc) ==
    IF s = <<>> THEN acc
    ELSE IF acc > (INT_MAX - DigitValue(Head(s))) \div 10 THEN 0 - 1
    ELSE stoiDigits(Tail(s), acc * 10 + DigitValue(Head(s)))

\* std::stoi of a non-empty string of decimal digits: std::out_of_range when
\* the value does not fit an int
stoi(digits) ==
    IF stoiDigits(digits, 0) < 0
    THEN [thrown |-> "out_of_range", value |-> 0]
    ELSE [thrown |-> "none", value |-> stoiDigits(digits, 0)]

RECURSIVE digitsPrefix(_)
\* the loop of tenorToMonths over the leading digits
digitsPrefix(s) ==
    IF s = <<>> \/ ~isdigit(Head(s)) THEN <<>> ELSE <<Head(s)>> \o digitsPrefix(Tail(s))

\* swap_utils::tenorToMonths: the exception it lets out ("none" if it
\* returns) and the value returned; num * 12 beyond INT_MAX is a signed
\* overflow, undefined behaviour
tenorToMonths(tenor) ==
    LET upper == toupperAll(tenor)
        digits == digitsPrefix(upper)
        i == Len(digits)
        num == stoi(digits).value
        unit == IF i < Len(upper) THEN upper[i + 1] ELSE "M"
    IN  IF tenor = <<>> THEN [thrown |-> "none", months |-> 0]
        ELSE IF i = 0 THEN [thrown |-> "none", months |-> 0]
        ELSE IF stoi(digits).thrown # "none"
        THEN [thrown |-> stoi(digits).thrown, months |-> 0]
        ELSE CASE unit = "D" -> [thrown |-> "none", months |-> num \div 30]
               [] unit = "W" -> [thrown |-> "none", months |-> num \div 4]
               [] unit = "M" -> [thrown |-> "none", months |-> num]
               [] unit = "Y" -> IF num > INT_MAX \div 12
                                THEN [thrown |-> "undefined", months |-> 0]
                                ELSE [thrown |-> "none", months |-> num * 12]
               [] OTHER -> [thrown |-> "none", months |-> num]

AllFrequencies == {"ANNUAL", "SEMI_ANNUAL", "QUARTERLY", "MONTHLY"}

\* the switch over fixed_leg.frequency()
paymentsPerYear(frequency) ==
    CASE frequency = "ANNUAL" -> 1
      [] frequency = "SEMI_ANNUAL" -> 2
      [] frequency = "QUARTERLY" -> 4
      [] frequency = "MONTHLY" -> 12
      [] OTHER -> 0

\* static_cast<int>(tenor_months / 12.0 * payments_per_year), computed
\* without leaving the range of int
numPayments(tenor_months, payments_per_year) ==
    (tenor_months \div 12) * payments_per_year
        + ((tenor_months % 12) * payments_per_year) \div 12

\* what calculateAnnuity returns: the fallback 1.0, or the sum of
\* num_payments discounted periods of length 1 / payments_per_year
Fallback == [kind |-> "fallback", num_payments |-> 0, payments_per_year |-> 0]

DiscountedSum(num_payments, payments_per_year) ==
    [kind |-> "sum", num_payments |-> num_payments, payments_per_year |-> payments_per_year]

\* line 235: the pay leg if it is fixed, else the receive leg
fixedLeg(sw) == IF isFixed(sw.pay_leg_) THEN sw.pay_leg_ ELSE sw.receive_leg_

\* SwaptionPricer::calculateAnnuity: the exception it lets out and the value
calculateAnnuity(sw) ==
    LET tenor_months == tenorToMonths(sw.tenor_)
        payments_per_year == paymentsPerYear(fixedLeg(sw).frequency_)
    IN  IF tenor_months.thrown # "none"
        THEN [thrown |-> tenor_months.thrown, value |-> Fallback]
        ELSE IF tenor_months.months = 0 THEN [thrown |-> "none", value |-> Fallback]
        ELSE IF payments_per_year = 0 THEN [thrown |-> "none", value |-> Fallback]
        ELSE [thrown |-> "none",
              value |-> DiscountedSum(numPayments(tenor_months.months, payments_per_year),
                                      payments_per_year)]

\* tenor tokens: empty, without a number, with each unit, in lower case,
\* without a unit, with an unknown unit, less than a month, and with a
\* number that does not fit an int
TenorTokens ==
    { <<>>, <<"Y">>, <<"5", "Y">>, <<"5", "y">>, <<"0", "Y">>, <<"1", "8", "M">>,
      <<"7">>, <<"3", "X">>, <<"9", "0", "D">>, <<"1", "5", "D">>, <<"8", "W">>,
      <<"1", "M">>,
      <<"9", "9", "9", "9", "9", "9", "9", "9", "9", "9", "Y">> }

\* swaps the factories return: a vanilla swap paying fixed, one receiving
\* fixed, and a basis swap, with any payment frequencies and tenor
PricerSwaps ==
    { [SampleSwap EXCEPT !.tenor_ = tenor, !.pay_leg_.frequency_ = f,
                         !.receive_leg_.frequency_ = g] :
        tenor \in TenorTokens, f \in AllFrequencies, g \in AllFrequencies }
    \cup
    { [SampleSwap EXCEPT !.tenor_ = tenor, !.pay_leg_ = SampleSwap.receive_leg_,
                         !.receive_leg_ = [SampleSwap.pay_leg_ EXCEPT !.frequency_ = g]] :
        tenor \in TenorTokens, g \in AllFrequencies }
    \cup
    { [SampleSwap EXCEPT !.type_ = "BASIS", !.tenor_ = tenor,
                         !.pay_leg_ = [SampleSwap.receive_leg_ EXCEPT
                                          !.rate_ = FloatingRate("LIBOR_USD")],
                         !.receive_leg_ = [SampleSwap.receive_leg_ EXCEPT
                                              !.frequency_ = g]] :
        tenor \in TenorTokens, g \in AllFrequencies }

\* ---- blackPrice and impliedVolatility -----------------------------------
\* The formulas of blackPrice and of the vega are not computed: the model
\* keeps which inputs make them NaN and leaves open which number they yield
\* otherwise.

\* std::log(forward_rate / strike) is NaN: an operand is NaN, the quotient is
\* 0/0, or it is negative
logIsNaN(forward_rate, strike) ==
    \/ forward_rate = NaN
    \/ strike = NaN
    \/ (forward_rate < 0 /\ strike >= 0)
    \/ (forward_rate > 0 /\ strike < 0)
    \/ (forward_rate = 0 /\ strike = 0)

PriceValues == 0..MaxDouble

\* blackPrice, lines 272-300: the exception calculateAnnuity lets out, or
\* the prices the formula may yield for a volatility in hundredths
blackPrice(s, forward_rate, volatility) ==
    IF calculateAnnuity(s.underlying_[1]).thrown # "none"
    THEN { [thrown |-> calculateAnnuity(s.underlying_[1]).thrown, price |-> 0] }
    ELSE IF volatility = NaN \/ logIsNaN(forward_rate, s.strike_rate_)
    THEN { [thrown |-> "none", price |-> NaN] }
    ELSE { [thrown |-> "none", price |-> p] : p \in PriceValues }

\* lines 322-326: notional * forward_rate * normalPDF(d1) * sqrt(T), of the
\* sign of forward_rate, zero when the density underflows
vega(s, forward_rate, vol) ==
    IF vol = NaN \/ logIsNaN(forward_rate, s.strike_rate_) THEN {NaN}
    ELSE IF forward_rate > 0 THEN {0, 1}
    ELSE IF forward_rate < 0 THEN {0 - 1, 0}
    ELSE {0}

\* std::abs(x) < bound
absLess(x, bound) == x # NaN /\ 0 - bound < x /\ x < bound

\* line 309: the initial guess, 0.20
InitialVol == 20

max_iterations == 100

\* |diff| < tolerance and |vega| < 1e-10 hold of the number 0 only, among the
\* numbers of the model
tolerance == 1

VegaFloor == 1

\* line 336: the volatility that replaces a non-positive one, 0.01
ClampedVol == 1

\* the numbers vol - diff / vega may be: one below zero, zero, one above
VolUpdates == {0 - 1, 0, 2}

\* line 332: vol - diff / vega
newtonUpdate(vol, diff, v) ==
    IF vol = NaN \/ diff = NaN \/ v = NaN THEN {NaN} ELSE VolUpdates

\* lines 335-337: if (vol <= 0.0) vol = 0.01
keepPositive(vol) == IF DLe(vol, 0) THEN ClampedVol ELSE vol

PricerIdle ==
    [op |-> "none", pc |-> "idle", swaption |-> <<>>, market_price |-> 0,
     forward_rate |-> 0, i |-> 0, vol |-> 0, diff |-> 0, calls |-> 0, trial |-> 0,
     thrown |-> "none", annuity |-> Fallback, result |-> 0, why |-> "none"]

\* the swaptions priced
PricerSwaptions ==
    { Swaption(type, "EUROPEAN", <<sw>>, <<1>>, strike_rate, 0) :
        type \in SwaptionTypes, sw \in PricerSwaps, strike_rate \in StrikeRates }

\* the swaptions whose implied volatility is computed
VolSwaptions ==
    { s \in PricerSwaptions :
        /\ s.type_ = "PAYER"
        /\ s.underlying_[1].type_ = "BASIS"
        /\ s.underlying_[1].receive_leg_.frequency_ = "SEMI_ANNUAL"
        /\ Len(s.underlying_[1].tenor_) \in {2, 11}
        /\ s.underlying_[1].tenor_[1] \in {"5", "9"}
        /\ s.underlying_[1].tenor_[Len(s.underlying_[1].tenor_)] = "Y" }

\* SwaptionPricer::blackPrice called at a volatility of 0.20
blackPrice_call ==
    /\ pricer.op = "none"
    /\ \E s \in PricerSwaptions, forward_rate \in Doubles :
       \E r \in blackPrice(s, forward_rate, InitialVol) :
           pricer' = [PricerIdle EXCEPT !.op = "blackPrice", !.pc = "done",
                         !.swaption = <<s>>, !.forward_rate = forward_rate,
                         !.vol = InitialVol, !.calls = 1, !.trial = InitialVol,
                         !.thrown = r.thrown,
                         !.annuity = calculateAnnuity(s.underlying_[1]).value,
                         !.result = r.price]
    /\ UNCHANGED notPricerVars

\* impliedVolatility, lines 308-311
impliedVolatility_call ==
    /\ pricer.op = "none"
    /\ \E s \in VolSwaptions, market_price \in {MaxDouble, NaN}, forward_rate \in Doubles :
           pricer' = [PricerIdle EXCEPT !.op = "impliedVolatility", !.pc = "loop",
                         !.swaption = <<s>>, !.market_price = market_price,
                         !.forward_rate = forward_rate, !.vol = InitialVol]
    /\ UNCHANGED notPricerVars

\* lines 313-319: one more iteration: the price at vol, and the return when
\* it is within the tolerance of the market price
impliedVolatility_price ==
    /\ pricer.op = "impliedVolatility"
    /\ pricer.pc = "loop"
    /\ pricer.i < max_iterations
    /\ \E r \in blackPrice(pricer.swaption[1], pricer.forward_rate, pricer.vol) :
           LET diff == DSub(r.price, pricer.market_price)
           IN  pricer' =
                 IF r.thrown # "none"
                 THEN [pricer EXCEPT !.pc = "done", !.calls = @ + 1, !.trial = pricer.vol,
                                     !.thrown = r.thrown]
                 ELSE IF absLess(diff, tolerance)
                 THEN [pricer EXCEPT !.pc = "done", !.calls = @ + 1, !.trial = pricer.vol,
                                     !.diff = diff, !.result = pricer.vol,
                                     !.why = "tolerance"]
                 ELSE [pricer EXCEPT !.pc = "vega", !.calls = @ + 1, !.trial = pricer.vol,
                                     !.diff = diff]
    /\ UNCHANGED notPricerVars

\* lines 321-337: the vega, the break when it is too small, the update
impliedVolatility_update ==
    /\ pricer.op = "impliedVolatility"
    /\ pricer.pc = "vega"
    /\ \E v \in vega(pricer.swaption[1], pricer.forward_rate, pricer.vol) :
           IF absLess(v, VegaFloor)
           THEN pricer' = [pricer EXCEPT !.pc = "done", !.result = pricer.vol,
                                         !.why = "vega"]
           ELSE \E vol \in newtonUpdate(pricer.vol, pricer.diff, v) :
                    pricer' = [pricer EXCEPT !.pc = "loop", !.i = @ + 1,
                                             !.vol = keepPositive(vol)]
    /\ UNCHANGED notPricerVars

\* lines 313 and 340: the loop ends after max_iterations iterations
impliedVolatility_exit ==
    /\ pricer.op = "impliedVolatility"
    /\ pricer.pc = "loop"
    /\ pricer.i >= max_iterations
    /\ pricer' = [pricer EXCEPT !.pc = "done", !.result = pricer.vol,
                                !.why = "iterations"]
    /\ UNCHANGED notPricerVars

\* the caller is done with the value returned
pricer_return ==
    /\ pricer.pc = "done"
    /\ pricer' = PricerIdle
    /\ UNCHANGED notPricerVars

NextPricer ==
    \/ blackPrice_call
    \/ impliedVolatility_call
    \/ impliedVolatility_price
    \/ impliedVolatility_update
    \/ impliedVolatility_exit
    \/ pricer_return

\* ---------------------------------------------------------------------
\* Specifications
\* ---------------------------------------------------------------------

Init ==
    /\ builder = SwapLegBuilderDefault
    /\ rateSet = FALSE
    /\ lastSet = NeverSet
    /\ leg = <<>>
    /\ legOp = "builder"
    /\ legArg = 0
    /\ legError = "none"
    /\ swap = <<>>
    /\ swapOp = "none"
    /\ swapArgs = [pay |-> <<>>, receive |-> <<>>, fx_rate |-> 0]
    /\ swapError = "none"
    /\ swaption = <<>>
    /\ swaptionMadeBy = "none"
    /\ swaptionOp = "none"
    /\ swaptionArgs = NoSwaptionArgs
    /\ swaptionError = "none"
    /\ tsq = ThreadSafeQueueNew
    /\ tsqThread = [t \in QueueThreads |-> ThreadIdle("none", 0)]
    /\ tsqHist = [called |-> <<>>, pushed |-> <<>>, popped |-> <<>>]
    /\ bq = <<>>
    /\ bqThread = [t \in BoundedThreads |-> BThreadIdle]
    /\ bqHist = [called |-> <<>>, pushed |-> <<>>, popped |-> <<>>]
    /\ validator = SwapValidatorNew
    /\ vCall = VCall("SwapValidator")
    /\ swaptionCall = NoSwaptionCall
    /\ tsqMoved = <<>>
    /\ pricer = PricerIdle

\* one SwapLegBuilder and the legs it builds
SpecLeg == Init /\ [][NextLeg]_vars

\* the InterestRateSwap factories
SpecSwap == Init /\ [][NextSwap]_vars

\* one Swaption object
SpecSwaption == Init /\ [][NextSwaption]_vars

\* the const member functions of Swaption, each called on any Swaption object
SpecSwaptionCall == Init /\ [][NextSwaptionCall]_vars

\* calls of SwaptionPricer
SpecPricer == Init /\ [][NextPricer]_vars

\* one ThreadSafeQueue shared by producers, consumers and a thread that shuts
\* it down
SpecTsq == Init /\ [][NextTsq]_vars

\* the same queue with popFor, clear and the move constructor called on it
SpecTsqSize == Init /\ [][NextTsqSize]_vars

\* one BoundedThreadSafeQueue shared by producers, a consumer and a thread that
\* shuts it down
SpecBq == Init /\ [][NextBq]_vars

\* one SwapValidator, configured and queried
SpecValidator == Init /\ [][NextValidator]_vars

\* the ThreadSafeQueue, with a scheduler under which a thread inside a call takes its
\* next step whenever that step is possible again and again; nothing obliges a
\* thread to start a call, nor a condition variable to wake up spuriously
FairSpecTsq == SpecTsq /\ \A t \in QueueThreads : SF_vars(tsqInCall(t))

\* the BoundedThreadSafeQueue under the same scheduler
FairSpecBq == SpecBq /\ \A t \in BoundedThreads : SF_vars(bqInCall(t))

\* ---------------------------------------------------------------------
\* Properties
\* ---------------------------------------------------------------------

\* x is a positive number
IsPositive(x) == x # NaN /\ x > 0

\* number of occurrences of x in the sequence s
Count(s, x) == Cardinality({ i \in 1..Len(s) : s[i] = x })

\* C1: createVanillaSwap returns a swap iff exactly one leg is fixed, the other
\* is floating and both have the same currency; for every other pair of legs
\* it throws invalid_argument and produces no swap.
C1_VanillaIff ==
    swapOp = "createVanillaSwap" =>
        LET pay == swapArgs.pay
            receive == swapArgs.receive
            ok == /\ \/ pay.type_ = "FIXED" /\ receive.type_ = "FLOATING"
                     \/ pay.type_ = "FLOATING" /\ receive.type_ = "FIXED"
                  /\ pay.currency_ = receive.currency_
        IN  /\ ok => /\ swapError = "none"
                     /\ swap # <<>>
                     /\ swap[1].type_ = "VANILLA"
                     /\ swap[1].pay_leg_ = pay
                     /\ swap[1].receive_leg_ = receive
            /\ ~ok => /\ swapError = "invalid_argument"
                      /\ swap = <<>>

\* C1 witness: a fixed and a floating leg of different currencies were rejected
C1_Witness ==
    /\ swapOp = "createVanillaSwap"
    /\ swapArgs.pay.type_ = "FIXED"
    /\ swapArgs.receive.type_ = "FLOATING"
    /\ swapArgs.pay.currency_ # swapArgs.receive.currency_
    /\ swap = <<>>
    /\ swapError = "invalid_argument"

\* C2: createBasisSwap returns a swap iff both legs are floating, have the same
\* currency and different floating indices; for every other pair of legs it
\* throws invalid_argument and produces no swap.
C2_BasisIff ==
    swapOp = "createBasisSwap" =>
        LET pay == swapArgs.pay
            receive == swapArgs.receive
            ok == /\ pay.type_ = "FLOATING"
                  /\ receive.type_ = "FLOATING"
                  /\ pay.currency_ = receive.currency_
                  /\ pay.rate_.index # receive.rate_.index
        IN  /\ ok => /\ swapError = "none"
                     /\ swap # <<>>
                     /\ swap[1].type_ = "BASIS"
                     /\ swap[1].pay_leg_ = pay
                     /\ swap[1].receive_leg_ = receive
            /\ ~ok => /\ swapError = "invalid_argument"
                      /\ swap = <<>>

\* C2 witness: two floating legs of one currency on the same index were rejected
C2_Witness ==
    /\ swapOp = "createBasisSwap"
    /\ swapArgs.pay.type_ = "FLOATING"
    /\ swapArgs.receive.type_ = "FLOATING"
    /\ swapArgs.pay.currency_ = swapArgs.receive.currency_
    /\ swapArgs.pay.rate_.index = swapArgs.receive.rate_.index
    /\ swap = <<>>
    /\ swapError = "invalid_argument"

\* C3: createCrossCurrencySwap returns a swap iff the legs' currencies differ
\* and fxRate > 0, whatever the kinds of the legs; otherwise it throws
\* invalid_argument; every swap it returns carries a present, positive fxRate.
C3_CrossCurrencyIff ==
    swapOp = "createCrossCurrencySwap" =>
        LET ok == /\ swapArgs.pay.currency_ # swapArgs.receive.currency_
                  /\ IsPositive(swapArgs.fx_rate)
        IN  /\ ok => swapError = "none" /\ swap # <<>>
            /\ ~ok => swapError = "invalid_argument" /\ swap = <<>>
            /\ swap # <<>> => /\ swap[1].fx_rate_ # <<>>
                              /\ IsPositive(swap[1].fx_rate_[1])

\* C4: build() produces a leg only if the stored currency is non-empty and the
\* stored notional is > 0, and throws otherwise; withNotional(n) with n <= 0
\* throws at the setter and leaves every field of the builder unchanged.
C4_BuilderRejects ==
    [][ /\ legOp' = "build" =>
            IF builder.currency_ # "" /\ IsPositive(builder.notional_)
            THEN TRUE
            ELSE legError' = "invalid_argument" /\ leg' = <<>>
        /\ (legOp' = "withNotional" /\ legArg' # NaN /\ legArg' <= 0) =>
            legError' = "invalid_argument" /\ builder' = builder
      ]_vars

\* C5: build() on a builder on which neither withFixedRate nor
\* withFloatingIndex was ever called throws, also with a valid currency and
\* notional.
C5_BuildNeedsRate ==
    (legOp = "build" /\ ~rateSet) => (legError = "invalid_argument" /\ leg = <<>>)

\* C6: a European swaption's exerciseDates is the one-element list
\* [expiryDate] in every reachable state.
C6_EuropeanDates ==
    (swaption # <<>> /\ swaption[1].style_ = "EUROPEAN") =>
        swaption[1].exercise_dates_ = <<swaption[1].expiry_date_>>

\* C6 witness: a European swaption after a rejected addExerciseDate
C6_Witness ==
    /\ swaption # <<>>
    /\ swaption[1].style_ = "EUROPEAN"
    /\ swaptionOp = "addExerciseDate"
    /\ swaptionError = "runtime_error"
    /\ swaptionArgs.date # swaption[1].expiry_date_

\* C7: every Bermudan swaption made by createBermudan or by the public
\* constructor has a non-empty exerciseDates; createBermudan with an empty
\* list throws and produces no swaption.
C7_BermudanNonEmpty ==
    /\ (swaption # <<>> /\ swaption[1].style_ = "BERMUDAN") =>
           swaption[1].exercise_dates_ # <<>>
    /\ (swaptionOp = "createBermudan" /\ swaptionArgs.exercise_dates = <<>>) =>
           (swaption = <<>> /\ swaptionError = "invalid_argument")

\* C8: after createBermudan and any addExerciseDate calls, every element of
\* exerciseDates is <= expiryDate in the lexicographic order.
C8_DatesNotAfterExpiry ==
    (swaption # <<>> /\ swaptionMadeBy = "createBermudan") =>
        \A d \in Range(swaption[1].exercise_dates_) :
            StrLe(d, swaption[1].expiry_date_)

\* C9: after createBermudan with any list and any addExerciseDate calls,
\* exerciseDates is sorted ascending and has no duplicate.
C9_SortedNoDuplicates ==
    (swaption # <<>> /\ swaptionMadeBy = "createBermudan") =>
        LET ds == swaption[1].exercise_dates_
        IN  \A i \in 1..(Len(ds) - 1) : StrLess(ds[i], ds[i + 1])

\* C10: addExerciseDate on a European or American swaption throws
\* runtime_error and changes no field; on a Bermudan swaption it does not
\* throw, adds the date iff it was absent, and leaves exerciseDates unchanged
\* when the date was present.  The occurrences are compared for every date
\* of the old vector, of the new vector and for the argument: any other date
\* occurs in neither vector.
C10_AddExerciseDate ==
    [][ swaptionOp' = "addExerciseDate" =>
          LET old == swaption[1]
              new == swaption'[1]
              date == swaptionArgs'.date
          IN  IF old.style_ # "BERMUDAN"
              THEN swaptionError' = "runtime_error" /\ swaption' = swaption
              ELSE /\ swaptionError' = "none"
                   /\ new = [old EXCEPT !.exercise_dates_ = new.exercise_dates_]
                   /\ date \in Range(old.exercise_dates_) =>
                          new.exercise_dates_ = old.exercise_dates_
                   /\ \A d \in Range(old.exercise_dates_) \cup
                                Range(new.exercise_dates_) \cup {date} :
                          Count(new.exercise_dates_, d) =
                              Count(old.exercise_dates_, d) +
                              (IF d = date /\ date \notin Range(old.exercise_dates_)
                               THEN 1 ELSE 0)
      ]_vars

\* C10 witness: a date was added to a Bermudan swaption that already had one
C10_Witness ==
    /\ swaption # <<>>
    /\ swaption[1].style_ = "BERMUDAN"
    /\ swaptionOp = "addExerciseDate"
    /\ swaptionError = "none"
    /\ swaptionArgs.date \in Range(swaption[1].exercise_dates_)
    /\ Len(swaption[1].exercise_dates_) = 2

\* a <= b in the lexicographic order: a is a prefix of b, or a is smaller at
\* the first position where they differ
LexLeq(a, b) ==
    \/ Len(a) <= Len(b) /\ \A i \in 1..Len(a) : a[i] = b[i]
    \/ \E i \in 1..Len(a) :
           /\ i <= Len(b)
           /\ a[i] < b[i]
           /\ \A j \in 1..(i - 1) : a[j] = b[j]

\* C11: canExerciseOn(date) is true iff date = expiryDate (European),
\* date <= expiryDate lexicographically (American), date is an element of
\* exerciseDates (Bermudan), on every swaption as constructed and as changed
\* by addExerciseDate; for a Bermudan swaption the exercisable dates are
\* those given to createBermudan, and addExerciseDate(d) adds exactly d.
C11_CanExerciseOn ==
    [][ (swaption' # <<>> /\ swaption' # swaption) =>
          LET new == swaption'[1]
          IN  /\ \A d \in Dates :
                    canExerciseOn(new, d) <=>
                        CASE new.style_ = "EUROPEAN" -> d = new.expiry_date_
                          [] new.style_ = "AMERICAN" -> LexLeq(d, new.expiry_date_)
                          [] new.style_ = "BERMUDAN" ->
                                \E i \in 1..Len(new.exercise_dates_) :
                                    new.exercise_dates_[i] = d
              /\ swaptionOp' = "createBermudan" =>
                    \A d \in Dates :
                        canExerciseOn(new, d) <=>
                            \E i \in 1..Len(swaptionArgs'.exercise_dates) :
                                swaptionArgs'.exercise_dates[i] = d
              /\ (swaptionOp' = "addExerciseDate" /\ new.style_ = "BERMUDAN") =>
                    \A d \in Dates :
                        canExerciseOn(new, d) <=>
                            (d = swaptionArgs'.date \/ canExerciseOn(swaption[1], d))
      ]_vars

\* C11 witness: an American swaption with a two-character expiry date, on
\* which a date that is a proper prefix of it is exercisable and a longer
\* date is not
C11_Witness ==
    /\ swaption # <<>>
    /\ swaption[1].style_ = "AMERICAN"
    /\ Len(swaption[1].expiry_date_) = 2
    /\ \E d \in Dates : Len(d) = 1 /\ canExerciseOn(swaption[1], d)
    /\ \E d \in Dates : Len(d) = 2 /\ ~canExerciseOn(swaption[1], d)

\* ---------------------------------------------------------------------
\* ThreadSafeQueue properties
\* ---------------------------------------------------------------------

\* thread t is inside pop()
inPop(t) == tsqThread[t].op = "pop" /\ tsqThread[t].pc # "idle"

\* shutdown() has stored the flag
shutdownCalled == tsq.shutdown_

\* C12: whenever a consumer is inside pop() and shutdown() has been called,
\* the pop eventually returns: no consumer stays blocked forever, however
\* the predicate check and the wait of pop interleave with the store and
\* the notify_all of shutdown.
C12_PopReturnsAfterShutdown ==
    \A c \in Consumers : (inPop(c) /\ shutdownCalled) ~> tsqThread[c].pc = "idle"

\* thread t takes a step
steps(t) == tsqThread'[t] # tsqThread[t]

\* thread t returns from its call in this step
returns(t) == tsqThread[t].pc # "idle" /\ tsqThread'[t].pc = "idle"

\* C13: while the queue is not shut down, the items enqueued are the items
\* returned followed by the items stored, so that every item is returned at
\* most once and in the order of enqueueing; that order is the order in
\* which the pushes took the lock (items are numbered in that order); and
\* the queue is empty when as many items were returned as were pushed.
C13_FifoExactlyOnce ==
    ~shutdownCalled =>
        /\ tsqHist.pushed = tsqHist.popped \o tsq.queue_
        /\ \A i \in 1..Len(tsqHist.pushed) : tsqHist.pushed[i] = i
        /\ \A c \in Consumers :
               tsqThread[c].ret = "value" => Count(tsqHist.popped, tsqThread[c].item) = 1
        /\ Len(tsqHist.popped) = Len(tsqHist.pushed) => tsq.queue_ = <<>>

\* two items pushed, one returned by each consumer, without a shutdown
C13_Witness ==
    /\ ~shutdownCalled
    /\ tsqHist.popped = <<1, 2>>
    /\ tsqThread["c1"].ret = "value" /\ tsqThread["c1"].item = 2
    /\ tsqThread["c2"].ret = "value" /\ tsqThread["c2"].item = 1
    /\ tsqThread["c1"].op = "pop" /\ tsqThread["c2"].op = "tryPop"

\* C14: a push or emplace that starts after shutdown() stored the flag never
\* changes the stored items nor the size and ends with an error; after the
\* shutdown the stored items still leave from the front only, so the
\* enqueued items are the returned ones followed by the stored ones; and a
\* pop that returns 'no value' finds the queue empty.
C14_AfterShutdown ==
    [][ /\ \A p \in Producers :
               (tsqThread[p].late /\ steps(p)) =>
                   /\ tsq'.queue_ = tsq.queue_
                   /\ tsq'.size_ = tsq.size_
                   /\ returns(p) => tsqThread'[p].ret = "runtime_error"
        /\ shutdownCalled =>
               /\ tsqHist'.pushed = tsqHist'.popped \o tsq'.queue_
               /\ \A c \in Consumers :
                      (returns(c) /\ tsqThread'[c].ret = "value") =>
                          /\ tsq.queue_ # <<>>
                          /\ tsqThread'[c].item = Head(tsq.queue_)
                          /\ tsq'.queue_ = Tail(tsq.queue_)
               /\ \A c \in Consumers :
                      (returns(c) /\ tsqThread[c].op = "pop"
                                  /\ tsqThread'[c].ret = "nullopt") =>
                          tsq.queue_ = <<>> /\ tsq'.queue_ = <<>>
      ]_vars

\* after the shutdown a push was refused, the item enqueued before it was
\* popped, and the next pop returned 'no value'
C14_Witness ==
    /\ shutdownCalled
    /\ \E p \in Producers :
           /\ tsqThread[p].late
           /\ tsqThread[p].ret = "runtime_error"
           /\ tsqThread[p].op = "emplace"
    /\ tsqHist.popped = <<1>>
    /\ tsqThread["c1"].op = "pop" /\ tsqThread["c1"].late /\ tsqThread["c1"].ret = "value"
    /\ tsqThread["c2"].op = "pop" /\ tsqThread["c2"].late /\ tsqThread["c2"].ret = "nullopt"

\* ---------------------------------------------------------------------
\* BoundedThreadSafeQueue properties
\* ---------------------------------------------------------------------

\* thread t takes a step
b_steps(t) == bqThread'[t] # bqThread[t]

\* an item is enqueued in this step
b_enqueues == bqHist'.pushed # bqHist.pushed

\* C15: the queue never stores more than max_size_ items, and a push() that
\* enqueues its item finds room for it; if it had found the queue full
\* before, an item was returned by a pop since then.
C15_NeverExceedsMaxSize ==
    [][ bq # <<>> =>
          /\ Len(theBq_next.queue_) <= theBq_next.max_size_
          /\ \A p \in BProducers :
                 (bqThread[p].op = "push" /\ b_steps(p) /\ b_enqueues) =>
                     /\ Len(theBq.queue_) < theBq.max_size_
                     /\ bqThread[p].blockedAt # -1 =>
                            Len(bqHist.popped) > bqThread[p].blockedAt
      ]_vars

\* a push found the queue full, blocked, and enqueued after a pop
C15_Witness ==
    /\ bq # <<>>
    /\ \E p \in BProducers :
           /\ bqThread[p].op = "push"
           /\ bqThread[p].blockedAt = 0
           /\ bqThread[p].ret = "void"
    /\ bqHist.popped = <<1>>
    /\ theBq.queue_ = <<2>>

\* C16: tryPush never waits: its step after taking the lock returns.  It
\* returns false and leaves the queue as it was when the queue is full,
\* shut down or not; otherwise it enqueues the item and returns true when the
\* queue is not shut down, and throws, leaving the queue as it was, when it is.
C16_TryPush ==
    [][ \A p \in BProducers :
            (bqThread[p].pc = "tryPush_check" /\ b_steps(p)) =>
                /\ bqThread'[p].pc = "idle"
                /\ p \notin theBq_next.cv_not_full_ \cup theBq_next.cv_not_empty_
                /\ theBq_next.mutex_ = "free"
                /\ IF Len(theBq.queue_) >= theBq.max_size_
                   THEN /\ bqThread'[p].ret = "false"
                        /\ theBq_next.queue_ = theBq.queue_
                        /\ theBq_next.size_ = theBq.size_
                   ELSE IF ~theBq.shutdown_
                   THEN /\ bqThread'[p].ret = "true"
                        /\ theBq_next.queue_ = Append(theBq.queue_, bqThread[p].item)
                        /\ theBq_next.size_ = theBq.size_ + 1
                   ELSE /\ bqThread'[p].ret = "runtime_error"
                        /\ theBq_next.queue_ = theBq.queue_
                        /\ theBq_next.size_ = theBq.size_
      ]_vars

\* one tryPush filled the queue; after the shutdown another one found it
\* full and returned false
C16_Witness ==
    /\ bq # <<>>
    /\ theBq.shutdown_
    /\ bqHist.called = <<"bp2", "bp1">>
    /\ bqThread["bp2"].op = "tryPush" /\ bqThread["bp2"].ret = "true"
    /\ bqThread["bp1"].op = "tryPush" /\ bqThread["bp1"].ret = "false"
    /\ theBq.queue_ = <<1>>

\* ---------------------------------------------------------------------
\* SwapValidator properties
\* ---------------------------------------------------------------------

\* the results on one field
onField(results, field) == SelectSeq(results, LAMBDA r : r.field = field)

\* exactly one result, of this severity
oneOf(results, severity) == Len(results) = 1 /\ results[1].severity = severity

\* a field that is in the map with a text that is not empty
present(value) == value # <<>> /\ value[1] # <<>>

RECURSIVE Flatten(_)
\* the concatenation of a sequence of sequences
Flatten(ss) == IF ss = <<>> THEN <<>> ELSE Head(ss) \o Flatten(Tail(ss))

\* C17: validate invokes every registered rule once and no other, and
\* returns what they yield, at most one result each, in the order of the
\* invocations; isValid tells whether no result of validate is an Error;
\* getErrors and getWarnings are the Errors and the Warnings of validate in
\* the same order.
C17_ValidateRunsEveryRule ==
    LET all == validate(validator, vCall.data)
        yields == [i \in 1..Len(vCall.invoked) |->
                      invoke(validator.rules_[vCall.invoked[i]], validator, vCall.data)]
    IN  /\ vCall.op = "validate" =>
               /\ \A n \in DOMAIN validator.rules_ : Count(vCall.invoked, n) = 1
               /\ Range(vCall.invoked) \subseteq DOMAIN validator.rules_
               /\ \A i \in 1..Len(yields) : Len(yields[i]) <= 1
               /\ vCall.results = Flatten(yields)
               /\ Len(vCall.results) <= ruleCount(validator)
        /\ vCall.op = "isValid" =>
               vCall.valid = (\A i \in 1..Len(all) : all[i].severity # "ERROR")
        /\ vCall.op = "getErrors" =>
               vCall.results = SelectSeq(all, LAMBDA r : r.severity = "ERROR")
        /\ vCall.op = "getWarnings" =>
               vCall.results = SelectSeq(all, LAMBDA r : r.severity = "WARNING")

\* with the custom rule registered, getWarnings returned two of the four
\* results of the seven rules, the others being an Error and an Info
C17_Witness ==
    /\ vCall.op = "getWarnings"
    /\ ruleCount(validator) = 7
    /\ Len(vCall.results) = 2
    /\ LET all == validate(validator, vCall.data)
       IN  /\ Len(all) = 4
           /\ \E i \in 1..4 : all[i].severity = "ERROR"
           /\ \E i \in 1..4 : all[i].severity = "INFO"

\* C18: a new validator has the six built-in rules; addRule binds the name
\* to the rule and leaves the other names alone, keeping ruleCount when the
\* name was bound already; removeRule unbinds the name and changes nothing
\* when it was not bound; no other call changes the registry; and validate
\* returns no result on the field of a built-in rule that was removed or
\* replaced.
C18_RuleRegistry ==
    [][ LET rules == validator.rules_
            rules_next == validator'.rules_
            n == vCall'.rule_name
        IN  /\ vCall.op = "SwapValidator" =>
                   /\ DOMAIN rules = {"direction", "currency", "notional",
                                      "tenor", "rate", "day_count"}
                   /\ ruleCount(validator) = 6
            /\ vCall'.op = "addRule" =>
                   /\ DOMAIN rules_next = DOMAIN rules \cup {n}
                   /\ rules_next[n] = vCall'.rule
                   /\ \A m \in DOMAIN rules \ {n} : rules_next[m] = rules[m]
                   /\ n \in DOMAIN rules => ruleCount(validator') = ruleCount(validator)
            /\ vCall'.op = "removeRule" =>
                   /\ DOMAIN rules_next = DOMAIN rules \ {n}
                   /\ \A m \in DOMAIN rules_next : rules_next[m] = rules[m]
                   /\ n \notin DOMAIN rules => validator' = validator
            /\ vCall'.op \notin {"addRule", "removeRule"} => rules_next = rules
            /\ vCall'.op = "validate" =>
                   \A b \in BuiltinNames :
                       (b \notin DOMAIN rules_next \/ rules_next[b] # registerDefaultRules[b])
                           => onField(vCall'.results, b) = <<>>
      ]_vars

\* the direction rule was replaced and the notional rule removed; validate
\* of a map with a wrong direction and a negative notional returns results,
\* none of them on these fields
C18_Witness ==
    /\ vCall.op = "validate"
    /\ ruleCount(validator) = 5
    /\ "notional" \notin DOMAIN validator.rules_
    /\ validator.rules_["direction"] = "vipRule"
    /\ vCall.data.direction = <<<<"H", "O", "L", "D">>>>
    /\ vCall.data.notional = <<<<"-", "1">>>>
    /\ vCall.results # <<>>

\* among the direction texts, those that are a direction whatever the case
\* of their letters
DirectionWords == {<<"B", "U", "Y">>,
                   <<"b", "u", "y">>,
                   <<"S", "e", "l", "l">>,
                   <<"T", "W", "O", "_", "W", "A", "Y">>,
                   <<"t", "w", "o", "-", "w", "a", "y">>,
                   <<"P", "a", "y">>,
                   <<"R", "E", "C", "E", "I", "V", "E">>,
                   <<"p", "a", "y">>,
                   <<"S", "E", "L", "L">>}

\* C19: strict mode is what setStrictMode last set; validate with the
\* built-in direction rule returns, when the direction is missing or empty,
\* one Error on field direction in strict mode and nothing on it otherwise,
\* and when it is there, nothing if it is one of the six words in any case
\* and one Error if not.
C19_DirectionRule ==
    [][ /\ validator'.strict_mode_ =
               IF vCall'.op = "setStrictMode" THEN vCall'.strict ELSE validator.strict_mode_
        /\ ( /\ vCall'.op = "validate"
             /\ "direction" \in DOMAIN validator'.rules_
             /\ validator'.rules_["direction"] = "validateDirection" ) =>
               LET direction == vCall'.data.direction
                   found == onField(vCall'.results, "direction")
               IN  IF ~present(direction)
                   THEN IF validator'.strict_mode_ THEN oneOf(found, "ERROR") ELSE found = <<>>
                   ELSE IF direction[1] \in DirectionWords
                   THEN found = <<>>
                   ELSE oneOf(found, "ERROR")
      ]_vars

\* in strict mode, validate of a map whose direction is the empty text
\* returned an Error on field direction
C19_Witness ==
    /\ vCall.op = "validate"
    /\ validator.strict_mode_
    /\ vCall.data.direction = <<<<>>>>
    /\ oneOf(onField(vCall.results, "direction"), "ERROR")

\* the text is a number: an optional sign and decimal digits, nothing else
IsNumber(text) ==
    LET body == IF text # <<>> /\ Head(text) \in {"-", "+"} THEN Tail(text) ELSE text
    IN  body # <<>> /\ \A i \in 1..Len(body) : isdigit(body[i])

\* the number a text that is one stands for
NumberValue(text) ==
    IF Head(text) = "-" THEN 0 - digitsValue(Tail(text), 0)
    ELSE IF Head(text) = "+" THEN digitsValue(Tail(text), 0)
    ELSE digitsValue(text, 0)

\* C20: validate with the built-in notional rule returns at most one result
\* on field notional, about the notional text if there is one and the
\* quantity text if not: nothing (strict mode: an Error) when there is
\* neither, an Error when the text is not a number or the number is not
\* positive, a Warning when it is positive and below min_notional_ or above
\* max_notional_, nothing when it is within the limits.
C20_NotionalRule ==
    ( /\ vCall.op = "validate"
      /\ "notional" \in DOMAIN validator.rules_
      /\ validator.rules_["notional"] = "validateNotional" ) =>
        LET notional == vCall.data.notional
            quantity == vCall.data.quantity
            found == onField(vCall.results, "notional")
            text == IF present(notional) THEN notional[1] ELSE quantity[1]
        IN  /\ Len(found) <= 1
            /\ IF ~present(notional) /\ ~present(quantity)
               THEN IF validator.strict_mode_ THEN oneOf(found, "ERROR") ELSE found = <<>>
               ELSE IF ~IsNumber(text)
               THEN oneOf(found, "ERROR")
               ELSE IF NumberValue(text) <= 0
               THEN oneOf(found, "ERROR")
               ELSE IF \/ NumberValue(text) < validator.min_notional_
                       \/ NumberValue(text) > validator.max_notional_
               THEN oneOf(found, "WARNING")
               ELSE found = <<>>

\* C21: with the built-in rules alone, validate returns, for every rule, the
\* result that rule yields on the map, whatever the other fields hold; a
\* notional or rate text that is not a number gives one Error on its field.
C21_ValidateNeverFails ==
    ( /\ vCall.op = "validate"
      /\ validator.rules_ = registerDefaultRules ) =>
        LET data == vCall.data
            notional_str == IF present(data.notional) THEN data.notional ELSE data.quantity
            rate_str == IF present(data.rate) THEN data.rate ELSE data.strike
        IN  /\ \A b \in BuiltinNames :
                   onField(vCall.results, b) = invoke(registerDefaultRules[b], validator, data)
            /\ (present(notional_str) /\ ~IsNumber(notional_str[1])) =>
                   oneOf(onField(vCall.results, "notional"), "ERROR")
            /\ (present(rate_str) /\ ~IsNumber(rate_str[1])) =>
                   oneOf(onField(vCall.results, "rate"), "ERROR")


\* the violations of validate that belong to the classification of the swap
ClassificationViolations ==
    { "Invalid vanilla swap: one leg must be fixed, one floating",
      "Invalid basis swap: both legs must be floating",
      "Invalid cross-currency swap: legs must have different currencies",
      "Cross-currency swap requires valid FX rate",
      "Overnight swap validation not yet implemented" }

\* C23: for the swap a factory returned, validate reports no violation of the
\* classification, so isValid is true iff tenor and effective date are both
\* non-empty; this holds in every later state, the swap never changing.
C23_FactorySwapValid ==
    swap # <<>> =>
        /\ \A i \in 1..Len(swapValidate(swap[1])) :
               swapValidate(swap[1])[i] \notin ClassificationViolations
        /\ swapIsValid(swap[1]) <=>
               (swap[1].tenor_ # "" /\ swap[1].effective_date_ # "")

\* C23 witness: the vanilla swap of tenor "5Y" with an effective date is valid
C23_Witness ==
    /\ swap # <<>>
    /\ swapOp = "createVanillaSwap"
    /\ swap[1].type_ = "VANILLA"
    /\ swap[1].tenor_ = "5Y"
    /\ swap[1].effective_date_ # ""
    /\ swapIsValid(swap[1])

\* the violations validate reports that name a date
datesNamed(violations) ==
    [i \in 1..Len(SelectSeq(violations, LAMBDA v : v.date # <<>>)) |->
        SelectSeq(violations, LAMBDA v : v.date # <<>>)[i].date[1]]

\* C22: isValid is true iff the underlying swap is valid, the expiry date is
\* not empty, 0 <= strike <= 1 and, for a Bermudan swaption, the exercise
\* dates are not empty and none is after the expiry date; validate reports one
\* violation naming the date for each exercise date after the expiry date.
C22_SwaptionIsValid ==
    /\ swaptionCall.op = "isValid" =>
           LET s == swaptionCall.swaption[1]
           IN  swaptionCall.result <=>
                   /\ swapIsValid(s.underlying_[1])
                   /\ s.expiry_date_ # <<>>
                   /\ s.strike_rate_ # NaN
                   /\ 0 <= s.strike_rate_
                   /\ s.strike_rate_ <= 1
                   /\ s.style_ = "BERMUDAN" =>
                          /\ s.exercise_dates_ # <<>>
                          /\ \A i \in 1..Len(s.exercise_dates_) :
                                 StrLe(s.exercise_dates_[i], s.expiry_date_)
    /\ (swaptionCall.op = "validate" /\ swaptionCall.swaption[1].style_ = "BERMUDAN") =>
           LET s == swaptionCall.swaption[1]
           IN  datesNamed(swaptionCall.result)
                   = SelectSeq(s.exercise_dates_, LAMBDA d : ~StrLe(d, s.expiry_date_))

\* C25: intrinsicValue is max(0, current rate - strike) for a payer and
\* max(0, strike - current rate) for a receiver; it is never negative, zero
\* when the two rates are equal, positive exactly when the current rate is
\* above (payer) or below (receiver) the strike, and the same for every
\* exercise style.
C25_IntrinsicValue ==
    swaptionCall.op = "intrinsicValue" =>
        LET s == swaptionCall.swaption[1]
            rate == swaptionCall.current_rate
            strike == s.strike_rate_
            value == swaptionCall.result
            numbers == rate # NaN /\ strike # NaN
        IN  /\ numbers =>
                value = IF s.type_ = "PAYER"
                        THEN (IF rate - strike > 0 THEN rate - strike ELSE 0)
                        ELSE (IF strike - rate > 0 THEN strike - rate ELSE 0)
            /\ value # NaN
            /\ value >= 0
            /\ rate = strike => value = 0
            /\ value > 0 <=> /\ numbers
                             /\ IF s.type_ = "PAYER" THEN rate > strike ELSE rate < strike
            /\ \A style \in ExerciseStyles :
                   intrinsicValue([s EXCEPT !.style_ = style], rate) = value

\* C25 witness: a receiver swaption was asked its value at a rate below the
\* strike, and a positive value came back
C25_Witness ==
    /\ swaptionCall.op = "intrinsicValue"
    /\ swaptionCall.swaption[1].type_ = "RECEIVER"
    /\ swaptionCall.swaption[1].style_ = "BERMUDAN"
    /\ swaptionCall.swaption[1].strike_rate_ = MaxDouble
    /\ swaptionCall.current_rate = 0
    /\ swaptionCall.result = MaxDouble

\* the value a field of the leg has when the last setter of it was given v,
\* or the default when the field was never set
lastOr(v, default) == IF v = <<>> THEN default ELSE v[1]

\* C24: after a build() that returned a leg, each accessor of the leg returns
\* the value last set (ACT_360, SEMI_ANNUAL and no spread when never set);
\* type() is FIXED and isFixed() holds iff the last rate setter called was
\* withFixedRate, type() is FLOATING and isFloating() holds iff it was
\* withFloatingIndex, and exactly one of isFixed(), isFloating() is true.
C24_BuilderRoundTrip ==
    (legOp = "build" /\ leg # <<>>) =>
        /\ lastSet.currency = <<leg[1].currency_>>
        /\ lastSet.notional = <<leg[1].notional_>>
        /\ leg[1].day_count_ = lastOr(lastSet.day_count, "ACT_360")
        /\ leg[1].frequency_ = lastOr(lastSet.frequency, "SEMI_ANNUAL")
        /\ leg[1].spread_ = lastSet.spread
        /\ lastSet.rate # <<>> => leg[1].rate_ = lastSet.rate[1].rate
        /\ (leg[1].type_ = "FIXED" /\ isFixed(leg[1]))
               <=> (lastSet.rate # <<>> /\ lastSet.rate[1].setter = "withFixedRate")
        /\ (leg[1].type_ = "FLOATING" /\ isFloating(leg[1]))
               <=> (lastSet.rate # <<>> /\ lastSet.rate[1].setter = "withFloatingIndex")
        /\ isFixed(leg[1]) # isFloating(leg[1])

\* C26: tryPop never waits on the condition variable; from the moment it has
\* the lock to its return no other thread changes the queue; it returns no
\* value iff the queue is empty then, whatever the shutdown flag, leaving the
\* queue as it was, and otherwise removes the front item and returns it.
C26_TryPop ==
    [][\A t \in Consumers :
          /\ tsqThread'[t].op = "tryPop" =>
                 /\ t \notin tsq'.cv_
                 /\ tsqThread'[t].pc \in {"tryPop_body", "idle"}
          /\ (tsqThread[t].pc = "tryPop_body" /\ tsqThread'[t].pc = "tryPop_body") =>
                 tsq'.queue_ = tsq.queue_
          /\ (tsqThread[t].pc = "tryPop_body" /\ tsqThread'[t].pc = "idle") =>
                 /\ tsqThread'[t].ret = "nullopt" <=> tsq.queue_ = <<>>
                 /\ tsq.queue_ = <<>> =>
                        /\ tsq'.queue_ = tsq.queue_
                        /\ tsq'.size_ = tsq.size_
                        /\ tsqHist'.popped = tsqHist.popped
                 /\ tsq.queue_ # <<>> =>
                        /\ tsqThread'[t].ret = "value"
                        /\ tsqThread'[t].item = Head(tsq.queue_)
                        /\ tsq'.queue_ = Tail(tsq.queue_)
                        /\ tsqHist'.popped = Append(tsqHist.popped, Head(tsq.queue_))]_vars

\* C26 witness: after the queue was shut down, one tryPop took the item of
\* the queue and another found the queue empty
C26_Witness ==
    /\ tsq.shutdown_
    /\ \E t \in Consumers :
           /\ tsqThread[t].op = "tryPop"
           /\ tsqThread[t].late
           /\ tsqThread[t].pc = "idle"
           /\ tsqThread[t].ret = "value"
           /\ tsqThread[t].item = 1
           /\ tsq.queue_ = <<>>
    /\ \E t \in Consumers :
           /\ tsqThread[t].op = "tryPop"
           /\ tsqThread[t].late
           /\ tsqThread[t].pc = "idle"
           /\ tsqThread[t].ret = "nullopt"

\* C30: whenever no thread holds the mutex of a queue, size_ is the number of
\* items it stores, so size() is that number and empty() is true iff it stores
\* none; this holds for the queue operated on and, after a move construction,
\* for the queue moved from and the queue constructed.
C30_SizeCounter ==
    /\ tsq.mutex_ = "free" =>
           /\ tsq_size(tsq) = Len(tsq.queue_)
           /\ tsq_empty(tsq) <=> tsq.queue_ = <<>>
    /\ tsqMoved # <<>> =>
           /\ tsq_size(tsqMoved[1]) = Len(tsqMoved[1].queue_)
           /\ tsq_empty(tsqMoved[1]) <=> tsqMoved[1].queue_ = <<>>

\* thread t is inside push() and found the queue full
blockedInPush(t) ==
    /\ bqThread[t].op = "push"
    /\ bqThread[t].pc \in {"push_block", "push_waiting"}

\* C29: a producer that found the queue full in push() does not stay blocked
\* for ever once the queue is shut down: its push eventually returns, however
\* the predicate check and the wait of push interleave with the store and the
\* notifications of shutdown.
C29_PushReturnsAfterShutdown ==
    \A p \in BProducers :
        (bq # <<>> /\ blockedInPush(p) /\ theBq.shutdown_) ~> bqThread[p].pc = "idle"

\* C28: a pricing call never fails, whatever the tenor of the underlying: the
\* annuity is the fallback 1.0 when the tenor does not parse to a positive
\* number of months, and otherwise the sum of floor(months / 12 x payments per
\* year) discounted periods, the payments per year being 1, 2, 4 or 12 after
\* the frequency of the pay leg if it is fixed, of the receive leg if not.
C28_AnnuityNeverFails ==
    pricer.op = "blackPrice" =>
        LET sw == pricer.swaption[1].underlying_[1]
            months == tenorToMonths(sw.tenor_).months
            frequency == IF sw.pay_leg_.type_ = "FIXED"
                         THEN sw.pay_leg_.frequency_ ELSE sw.receive_leg_.frequency_
            perYear == CASE frequency = "ANNUAL" -> 1
                         [] frequency = "SEMI_ANNUAL" -> 2
                         [] frequency = "QUARTERLY" -> 4
                         [] frequency = "MONTHLY" -> 12
        IN  /\ pricer.thrown = "none"
            /\ months <= 0 => pricer.annuity = Fallback
            /\ months > 0 =>
                   /\ pricer.annuity.kind = "sum"
                   /\ pricer.annuity.payments_per_year = perYear
                   /\ pricer.annuity.num_payments * 12 <= months * perYear
                   /\ months * perYear < (pricer.annuity.num_payments + 1) * 12

\* C27: impliedVolatility calls blackPrice at most 100 times; it returns the
\* volatility it holds as soon as the price is within the tolerance of the
\* market price or the vega is too small; and every volatility it passes to
\* blackPrice is a number greater than zero.
C27_ImpliedVolatility ==
    pricer.op = "impliedVolatility" =>
        /\ pricer.calls <= max_iterations
        /\ pricer.calls > 0 => (pricer.trial # NaN /\ pricer.trial > 0)
        /\ (pricer.pc = "done" /\ pricer.thrown = "none") =>
               /\ pricer.result = pricer.vol
               /\ \/ pricer.why = "tolerance" /\ absLess(pricer.diff, tolerance)
                  \/ pricer.why = "vega"
                  \/ pricer.why = "iterations" /\ pricer.calls = max_iterations
        /\ pricer.pc = "vega" => ~absLess(pricer.diff, tolerance)
====
